---- MODULE Spec2Model ----
(***************************************************************************)
(* Warpage_process: the data-cleaning and statistics pipeline.             *)
(*   data_loader.py        load_data_from_file, extract_center_region,     *)
(*                         find_data_files, process_folder_data,           *)
(*                         process_batch_files                             *)
(*   warpage_statistics.py calculate_statistics                            *)
(*   temp/analyzer.py      analyze_warpage                                 *)
(*                                                                         *)
(* Floating point values are modelled as tagged records: Num(v) for a      *)
(* finite value v (an integer number of measurement units) and NaN for     *)
(* numpy's not-a-number.  A numpy 2-D array is a record with its shape     *)
(* and its rows, because an array with zero rows still has a column count. *)
(***************************************************************************)
EXTENDS Integers, Sequences, FiniteSets, TLC

(***************************************************************************)
(* Bounds of the model.                                                    *)
(***************************************************************************)
MaxCells == 4

(***************************************************************************)
(* Floating point values.                                                  *)
(***************************************************************************)
NaN == [nan |-> TRUE]
Num(v) == [nan |-> FALSE, v |-> v]
isnan(x) == x.nan

\* numpy's elementwise ==: a comparison with NaN is False.
FloatEq(x, c) == (~isnan(x)) /\ x.v = c

(***************************************************************************)
(* Text of a data file.  A file is either unreadable (open() raises) or a  *)
(* sequence of lines, each a sequence of whitespace-separated tokens.      *)
(***************************************************************************)
NumericTokens == {"0", "1", "-4000", "9999.0", "nan"}
Tokens == NumericTokens \cup {"abc"}

NoFile == [readable |-> FALSE]
TextFile(ls) == [readable |-> TRUE, lines |-> ls]

\* The marker of a raised exception inside an expression.
ValueError == [error |-> TRUE]

\* float(token): Python accepts decimal numerals and "nan"; anything else
\* raises ValueError.
ParseFloat(tok) ==
    CASE tok = "0"      -> Num(0)
      [] tok = "1"      -> Num(1)
      [] tok = "-4000"  -> Num(-4000)
      [] tok = "9999.0" -> Num(9999)
      [] tok = "nan"    -> NaN
      [] OTHER          -> ValueError

\* str.strip() on the whole text: blank lines at both ends disappear.
RECURSIVE LStrip(_)
LStrip(ls) ==
    IF ls = <<>> THEN <<>>
    ELSE IF Head(ls) = <<>> THEN LStrip(Tail(ls)) ELSE ls

RECURSIVE RStrip(_)
RStrip(ls) ==
    IF ls = <<>> THEN <<>>
    ELSE IF ls[Len(ls)] = <<>> THEN RStrip(SubSeq(ls, 1, Len(ls) - 1)) ELSE ls

\* data.strip().split('\n'): the empty text still splits into one empty line.
SplitLines(ls) ==
    LET s == RStrip(LStrip(ls)) IN IF s = <<>> THEN << <<>> >> ELSE s

(***************************************************************************)
(* numpy arrays.                                                           *)
(***************************************************************************)
Array(r, c, rows) == [shape |-> <<r, c>>, a |-> rows]

NRows(g) == g.shape[1]
NCols(g) == g.shape[2]

\* Indices i of 1..n with P[i], in ascending order (boolean mask indexing).
RECURSIVE MaskIdx(_, _)
MaskIdx(mask, n) ==
    IF n = 0 THEN <<>>
    ELSE IF mask[n] THEN Append(MaskIdx(mask, n - 1), n) ELSE MaskIdx(mask, n - 1)

\* np.all(data_array == 0, axis=1)[i]
RowAllZero(g, i) == \A j \in 1..NCols(g) : FloatEq(g.a[i][j], 0)

\* np.all(data_array == 0, axis=0)[j]
ColAllZero(g, j) == \A i \in 1..NRows(g) : FloatEq(g.a[i][j], 0)

\* Variant: np.any in place of np.all in the row mask.
RemoveZeroRows_Any(g) ==
    LET keep == MaskIdx([i \in 1..NRows(g) |->
                            ~(\E j \in 1..NCols(g) : FloatEq(g.a[i][j], 0))], NRows(g))
    IN  Array(Len(keep), NCols(g), [k \in 1..Len(keep) |-> g.a[keep[k]]])

\* data_array[nonzero_row_mask, :]
RemoveZeroRows(g) ==
    LET keep == MaskIdx([i \in 1..NRows(g) |-> ~RowAllZero(g, i)], NRows(g))
    IN  Array(Len(keep), NCols(g), [k \in 1..Len(keep) |-> g.a[keep[k]]])

\* Variant: the column pass left out.
RemoveZeroCols_Skip(g) == g

\* data_array[:, nonzero_col_mask]
RemoveZeroCols(g) ==
    LET keep == MaskIdx([j \in 1..NCols(g) |-> ~ColAllZero(g, j)], NCols(g))
    IN  Array(NRows(g), Len(keep),
              [i \in 1..NRows(g) |-> [k \in 1..Len(keep) |-> g.a[i][keep[k]]]])

\* Variant: the artifact list of the earlier version (only -4000).
invalid_values_Single == <<-4000>>

invalid_values == <<-4000, 9999, -9999, 99999, -99999>>

\* np.sum(data_array == invalid_val)
CountEq(g, c) ==
    Cardinality({p \in (1..NRows(g)) \X (1..NCols(g)) : FloatEq(g.a[p[1]][p[2]], c)})

\* np.where(data_array == invalid_val, np.nan, data_array)
WhereEqNaN(g, c) ==
    Array(NRows(g), NCols(g),
          [i \in 1..NRows(g) |-> [j \in 1..NCols(g) |->
              IF FloatEq(g.a[i][j], c) THEN NaN ELSE g.a[i][j]]])

\* The loop over invalid_values, from its k-th element on.
RECURSIVE NullifyArtifacts(_, _)
NullifyArtifacts(g, k) ==
    IF k > Len(invalid_values) THEN g
    ELSE IF CountEq(g, invalid_values[k]) > 0
         THEN NullifyArtifacts(WhereEqNaN(g, invalid_values[k]), k + 1)
         ELSE NullifyArtifacts(g, k + 1)

None == [none |-> TRUE]

\* np.array([list(map(float, line.split())) for line in data_lines]):
\* a token that float() rejects raises, and so do rows of differing length
\* (numpy >= 1.24 raises at once; older versions build a 1-D object array
\* on which np.all(..., axis=1) raises).  Both end in the except clause.
ParseArray(ls) ==
    LET lines == SplitLines(ls)
        bad == \E i \in 1..Len(lines) : \E j \in 1..Len(lines[i]) :
                   ParseFloat(lines[i][j]) = ValueError
        ragged == \E i \in 1..Len(lines) : Len(lines[i]) # Len(lines[1])
    IN  IF bad \/ ragged THEN ValueError
        ELSE Array(Len(lines), Len(lines[1]),
                   [i \in 1..Len(lines) |-> [j \in 1..Len(lines[i]) |->
                       ParseFloat(lines[i][j])]])

\* Variant: without the except clause the exception leaves the function.
load_data_from_file_NoExcept(file) ==
    IF ~file.readable THEN ValueError
    ELSE LET parsed == ParseArray(file.lines)
         IN  IF parsed = ValueError THEN ValueError
             ELSE NullifyArtifacts(RemoveZeroCols(RemoveZeroRows(parsed)), 1)

load_data_from_file(file) ==
    IF ~file.readable THEN None
    ELSE LET parsed == ParseArray(file.lines)
         IN  IF parsed = ValueError THEN None
             ELSE NullifyArtifacts(RemoveZeroCols(RemoveZeroRows(parsed)), 1)


(***************************************************************************)
(* extract_center_region.  A retention fraction is a rational <<p, q>>     *)
(* with 0 < p <= q; int() of a non-negative product is the floor.          *)
(***************************************************************************)
One == <<1, 1>>
FracIsOne(f) == f[1] = f[2]

\* int(n * (1 - fraction) / 2)
MarginStart(n, f) == (n * (f[2] - f[1])) \div (2 * f[2])

\* int(n * (1 - (1 - fraction) / 2))
MarginEnd(n, f) == (n * (f[2] + f[1])) \div (2 * f[2])

\* Variant: no fast path, and the end index of the row slice taken as
\* inclusive (one row less).
extract_center_region_InclusiveEnd(g, row_fraction, col_fraction) ==
    LET row_start == MarginStart(NRows(g), row_fraction)
        row_end   == MarginEnd(NRows(g), row_fraction) - 1
        col_start == MarginStart(NCols(g), col_fraction)
        col_end   == MarginEnd(NCols(g), col_fraction)
        rows      == IF row_end > row_start THEN row_end - row_start ELSE 0
    IN  Array(rows, col_end - col_start,
              [i \in 1..rows |->
                  [j \in 1..(col_end - col_start) |-> g.a[row_start + i][col_start + j]]])

\* Variant: the rows of the slice taken from its last row upwards.
extract_center_region_Mirror(g, row_fraction, col_fraction) ==
    LET row_start == MarginStart(NRows(g), row_fraction)
        row_end   == MarginEnd(NRows(g), row_fraction)
        col_start == MarginStart(NCols(g), col_fraction)
        col_end   == MarginEnd(NCols(g), col_fraction)
    IN  Array(row_end - row_start, col_end - col_start,
              [i \in 1..(row_end - row_start) |->
                  [j \in 1..(col_end - col_start) |->
                      g.a[row_end + 1 - i][col_start + j]]])

extract_center_region(g, row_fraction, col_fraction) ==
    IF FracIsOne(row_fraction) /\ FracIsOne(col_fraction) THEN g
    ELSE LET row_start == MarginStart(NRows(g), row_fraction)
             row_end   == MarginEnd(NRows(g), row_fraction)
             col_start == MarginStart(NCols(g), col_fraction)
             col_end   == MarginEnd(NCols(g), col_fraction)
         IN  Array(row_end - row_start, col_end - col_start,
                   [i \in 1..(row_end - row_start) |->
                       [j \in 1..(col_end - col_start) |->
                           g.a[row_start + i][col_start + j]]])

(***************************************************************************)
(* calculate_statistics.  mean is the exact fraction n/d; std is carried   *)
(* as its square (the variance) n/d, since the square root is one-to-one   *)
(* on the non-negative reals.                                              *)
(***************************************************************************)
Frac(n, d) == [nan |-> FALSE, n |-> n, d |-> d]

\* The array in row-major order (numpy's flat iteration order).
RECURSIVE Flatten(_, _)
Flatten(g, i) ==
    IF i > NRows(g) THEN <<>> ELSE g.a[i] \o Flatten(g, i + 1)

\* data_array[~np.isnan(data_array)]
ValidData(g) == SelectSeq(Flatten(g, 1), LAMBDA x : ~isnan(x))

\* np.fmin / np.fmax: a NaN operand is ignored when the other is a number.
fmin(x, y) ==
    IF isnan(x) THEN y ELSE IF isnan(y) THEN x ELSE IF y.v < x.v THEN y ELSE x
fmax(x, y) ==
    IF isnan(x) THEN y ELSE IF isnan(y) THEN x ELSE IF y.v > x.v THEN y ELSE x

RECURSIVE ReduceMin(_)
ReduceMin(s) == IF Len(s) = 1 THEN s[1] ELSE fmin(s[1], ReduceMin(Tail(s)))
RECURSIVE ReduceMax(_)
ReduceMax(s) == IF Len(s) = 1 THEN s[1] ELSE fmax(s[1], ReduceMax(Tail(s)))

\* np.nanmin(data_array) = np.fmin.reduce over the flat array
nanmin(g) == ReduceMin(Flatten(g, 1))
\* np.nanmax(data_array) = np.fmax.reduce over the flat array
nanmax(g) == ReduceMax(Flatten(g, 1))

\* The sum of a sequence of numbers.
RECURSIVE SumSeq(_)
SumSeq(s) == IF s = <<>> THEN 0 ELSE Head(s) + SumSeq(Tail(s))

\* _replace_nan(a, 0): the flat array with NaN replaced by 0.
ZeroNaN(s) == [i \in 1..Len(s) |-> IF isnan(s[i]) THEN 0 ELSE s[i].v]

\* Variant: the size of the array (np.mean over zero-substituted data).
CountAll(g) == Len(Flatten(g, 1))

\* np.sum(~mask): the number of entries that are not NaN.
CountValid(g) ==
    Cardinality({i \in 1..Len(Flatten(g, 1)) : ~isnan(Flatten(g, 1)[i])})

\* np.nanmean: NaN replaced by 0, summed, divided by the count of non-NaN.
nanmean(g) == Frac(SumSeq(ZeroNaN(Flatten(g, 1))), CountValid(g))

\* np.nanstd: deviations from the nan-mean, zeroed where NaN, squared,
\* summed, divided by the count of non-NaN.  With S the sum and n the
\* count, sum((x - S/n)^2) / n = sum((n*x - S)^2) / n^3.
nanstd(g) ==
    LET flat == Flatten(g, 1)
        n == CountValid(g)
        S == SumSeq(ZeroNaN(flat))
        sqr == [i \in 1..Len(flat) |->
                   IF isnan(flat[i]) THEN 0
                   ELSE (n * flat[i].v - S) * (n * flat[i].v - S)]
    IN  Frac(SumSeq(sqr), n * n * n)

\* x - y on floats
FSub(x, y) == IF isnan(x) \/ isnan(y) THEN NaN ELSE Num(x.v - y.v)

\* Variant: range from np.max - np.min, which propagate NaN.
calculate_statistics_PlainRange(g) ==
    IF Len(ValidData(g)) = 0
    THEN [min |-> NaN, max |-> NaN, mean |-> NaN, std |-> NaN,
          shape |-> g.shape, range |-> NaN]
    ELSE [min |-> nanmin(g), max |-> nanmax(g), mean |-> nanmean(g),
          std |-> nanstd(g), shape |-> g.shape,
          range |-> IF Len(ValidData(g)) < Len(Flatten(g, 1)) THEN NaN
                    ELSE FSub(nanmax(g), nanmin(g))]

\* Variant: zeros in place of NaN for a grid without valid data.
calculate_statistics_ZeroEmpty(g) ==
    IF Len(ValidData(g)) = 0
    THEN [min |-> Num(0), max |-> Num(0), mean |-> Frac(0, 1), std |-> Frac(0, 1),
          shape |-> g.shape, range |-> Num(0)]
    ELSE [min |-> nanmin(g), max |-> nanmax(g), mean |-> nanmean(g),
          std |-> nanstd(g), shape |-> g.shape,
          range |-> FSub(nanmax(g), nanmin(g))]

calculate_statistics(g) ==
    IF Len(ValidData(g)) = 0
    THEN [min |-> NaN, max |-> NaN, mean |-> NaN, std |-> NaN,
          shape |-> g.shape, range |-> NaN]
    ELSE [min |-> nanmin(g), max |-> nanmax(g), mean |-> nanmean(g),
          std |-> nanstd(g), shape |-> g.shape,
          range |-> FSub(nanmax(g), nanmin(g))]

(***************************************************************************)
(* find_data_files.  File names are strings; the outcome of os.listdir is  *)
(* Listing(files) with the sequence of names it returns, or OSError when   *)
(* the folder is missing or unreadable.                                    *)
(***************************************************************************)
FILE_PATTERNS == [original |-> "@_ORI.txt", corrected |-> "@.txt"]

OSError == [ok |-> FALSE]
Listing(files) == [ok |-> TRUE, files |-> files]

\* str.endswith(suffix)
EndsWith(str, suffix) ==
    /\ Len(str) >= Len(suffix)
    /\ SubSeq(str, Len(str) - Len(suffix) + 1, Len(str)) = suffix

\* ord(c) for the characters of the file names
Ord(c) ==
    CASE c = "." -> 46
      [] c = "@" -> 64
      [] c = "I" -> 73
      [] c = "O" -> 79
      [] c = "R" -> 82
      [] c = "_" -> 95
      [] c = "a" -> 97
      [] c = "b" -> 98
      [] c = "c" -> 99
      [] c = "d" -> 100
      [] c = "t" -> 116
      [] c = "x" -> 120

\* Python's str < str: lexicographic by code point, a proper prefix first.
RECURSIVE StrLess(_, _)
StrLess(x, y) ==
    IF y = "" THEN FALSE
    ELSE IF x = "" THEN TRUE
    ELSE IF SubSeq(x, 1, 1) # SubSeq(y, 1, 1)
         THEN Ord(SubSeq(x, 1, 1)) < Ord(SubSeq(y, 1, 1))
         ELSE StrLess(SubSeq(x, 2, Len(x)), SubSeq(y, 2, Len(y)))

\* Variant: the list left in listing order.
SortNames_Unsorted(fs) == fs

\* list.sort() on a list of names
RECURSIVE InsertSorted(_, _)
InsertSorted(x, srt) ==
    IF srt = <<>> THEN <<x>>
    ELSE IF StrLess(x, Head(srt)) THEN <<x>> \o srt
    ELSE <<Head(srt)>> \o InsertSorted(x, Tail(srt))
RECURSIVE SortNames(_)
SortNames(fs) ==
    IF fs = <<>> THEN <<>> ELSE InsertSorted(Head(fs), SortNames(Tail(fs)))

\* os.path.join(a, b) for a relative b
Join(x, y) ==
    IF x = "" THEN y ELSE IF EndsWith(x, "/") THEN x \o y ELSE x \o "/" \o y

\* os.path.basename(path): what follows the last "/"
RECURSIVE Basename(_)
Basename(path) ==
    LET slashes == {k \in 1..Len(path) : SubSeq(path, k, k) = "/"}
    IN  IF slashes = {} THEN path
        ELSE Basename(SubSeq(path, (CHOOSE k \in slashes : \A m \in slashes : k <= m) + 1,
                             Len(path)))

\* Variant: the corrected selector takes every name ending in ".txt".
find_data_files_AnyTxt(folder_path, listing, use_original_files) ==
    IF ~listing.ok THEN <<>>
    ELSE LET files == listing.files
             target_files ==
                 IF use_original_files
                 THEN SelectSeq(files, LAMBDA f : EndsWith(f, FILE_PATTERNS.original))
                 ELSE SelectSeq(files, LAMBDA f : EndsWith(f, ".txt"))
             sorted == SortNames(target_files)
         IN  IF target_files # <<>>
             THEN [k \in 1..Len(sorted) |-> Join(folder_path, sorted[k])]
             ELSE <<>>

\* listing is the outcome of os.listdir(folder_path).
find_data_files(folder_path, listing, use_original_files) ==
    IF ~listing.ok THEN <<>>
    ELSE LET files == listing.files
             target_files ==
                 IF use_original_files
                 THEN SelectSeq(files, LAMBDA f : EndsWith(f, FILE_PATTERNS.original))
                 ELSE SelectSeq(files, LAMBDA f :
                          /\ EndsWith(f, FILE_PATTERNS.corrected)
                          /\ ~EndsWith(f, FILE_PATTERNS.original))
             sorted == SortNames(target_files)
         IN  IF target_files # <<>>
             THEN [k \in 1..Len(sorted) |-> Join(folder_path, sorted[k])]
             ELSE <<>>

(***************************************************************************)
(* validate_batch_files.  A path leads to nothing, or to a stored file:    *)
(* its text (lines of tokens; a text without any line is a file of size    *)
(* 0) and whether open() and the reads of the first lines succeed.  They   *)
(* raise for a directory, for a file without read permission and for       *)
(* bytes that are not UTF-8 in the block the first read decodes.           *)
(***************************************************************************)
NoPath == [exists |-> FALSE]
Stored(readable, ls) == [exists |-> TRUE, readable |-> readable, lines |-> ls]

\* Variant: every line of the file is sampled.
SampleLines_All(ls) == ls

\* [f.readline().strip() for _ in range(3)]: readline() gives '' at the end
\* of the file.
SampleLines(ls) == [k \in 1..3 |-> IF k <= Len(ls) THEN ls[k] ELSE <<>>]

\* The loop over sample_lines: list(map(float, line.split())) on every line
\* that is not empty.
SamplesParse(ls) ==
    LET sample_lines == SampleLines(ls)
    IN  \A k \in 1..Len(sample_lines) : \A j \in 1..Len(sample_lines[k]) :
            ParseFloat(sample_lines[k][j]) # ValueError

\* The body of `for file_path in file_paths`: the checks in their order.
ValidateFile(file_path, file) ==
    LET filename == Basename(file_path)
    IN  IF ~file.exists
        THEN [valid |-> FALSE, reason |-> "File not found"]
        ELSE IF ~(EndsWith(filename, ".txt") \/ EndsWith(filename, ".ptr"))
        THEN [valid |-> FALSE, reason |-> "Invalid file extension"]
        ELSE IF file.lines = <<>>
        THEN [valid |-> FALSE, reason |-> "Empty file"]
        ELSE IF (~file.readable) \/ ~SamplesParse(file.lines)
        THEN [valid |-> FALSE, reason |-> "Format error"]
        ELSE [valid |-> TRUE, reason |-> ""]

\* fs gives what every path leads to.
validate_batch_files(file_paths, fs) ==
    LET valid_files == SelectSeq(file_paths, LAMBDA p : ValidateFile(p, fs[p]).valid)
        turned_down == SelectSeq(file_paths, LAMBDA p : ~ValidateFile(p, fs[p]).valid)
        invalid_files == [k \in 1..Len(turned_down) |->
                             <<turned_down[k],
                               ValidateFile(turned_down[k], fs[turned_down[k]]).reason>>]
    IN  [valid_files |-> valid_files,
         invalid_files |-> invalid_files,
         total_files |-> Len(file_paths),
         valid_count |-> Len(valid_files),
         invalid_count |-> Len(invalid_files)]

(***************************************************************************)
(* Pieces of process_folder_data, process_batch_files and analyze_warpage. *)
(***************************************************************************)
\* The tuple (center_data, stats, filename) of a processed file.
Entry(center_data, stats, filename) ==
    [data |-> center_data, stats |-> stats, filename |-> filename]

\* f"File_{i:02d}"
FileId(i) == "File_" \o (IF i < 10 THEN "0" ELSE "") \o ToString(i)

\* dict[key] = value
DictPut(d, key, value) ==
    [k \in (DOMAIN d) \cup {key} |-> IF k = key THEN value ELSE d[k]]

\* The center region used for a loaded file: extract_center_region is
\* called only when a fraction differs from 1.
CenterData(raw_data, row_fraction, col_fraction) ==
    IF (~FracIsOne(row_fraction)) \/ (~FracIsOne(col_fraction))
    THEN extract_center_region(raw_data, row_fraction, col_fraction)
    ELSE raw_data

\* Variant: a failed load is tried once more before the file is skipped.
process_single_file_Retry(file, row_fraction, col_fraction) ==
    LET raw_data == load_data_from_file(file)
    IN  IF raw_data = None
        THEN [calls |-> <<"load">> \o (IF load_data_from_file(file) = None
                                       THEN <<"load", "skip">> ELSE <<"load">>),
              loaded |-> FALSE]
        ELSE LET center_data == CenterData(raw_data, row_fraction, col_fraction)
             IN  [calls |-> <<"load">>
                            \o (IF (~FracIsOne(row_fraction)) \/ (~FracIsOne(col_fraction))
                                THEN <<"extract">> ELSE <<>>)
                            \o <<"statistics">>,
                  loaded |-> TRUE,
                  center_data |-> center_data,
                  stats |-> calculate_statistics(center_data)]

\* process_single_file(file_path) up to its with block, on the file at
\* file_path: the calls it makes, in order, and what it holds afterwards.
process_single_file(file, row_fraction, col_fraction) ==
    LET raw_data == load_data_from_file(file)
    IN  IF raw_data = None
        THEN [calls |-> <<"load", "skip">>, loaded |-> FALSE]
        ELSE LET center_data == CenterData(raw_data, row_fraction, col_fraction)
             IN  [calls |-> <<"load">>
                            \o (IF (~FracIsOne(row_fraction)) \/ (~FracIsOne(col_fraction))
                                THEN <<"extract">> ELSE <<>>)
                            \o <<"statistics">>,
                  loaded |-> TRUE,
                  center_data |-> center_data,
                  stats |-> calculate_statistics(center_data)]

\* The body of the loop of process_folder_data for one file, likewise.
process_folder_file(file, row_fraction, col_fraction) ==
    LET raw_data == load_data_from_file(file)
    IN  IF raw_data = None
        THEN [calls |-> <<"load", "skip">>, loaded |-> FALSE]
        ELSE LET center_data == CenterData(raw_data, row_fraction, col_fraction)
             IN  [calls |-> <<"load">>
                            \o (IF (~FracIsOne(row_fraction)) \/ (~FracIsOne(col_fraction))
                                THEN <<"extract">> ELSE <<>>)
                            \o <<"statistics">>,
                  loaded |-> TRUE,
                  center_data |-> center_data,
                  stats |-> calculate_statistics(center_data)]

\* The calls made for the file at path, added to the record of a run.
AddSteps(log, path, calls) ==
    [q \in (DOMAIN log) \cup {path} |->
        IF q = path
        THEN (IF path \in DOMAIN log THEN log[path] ELSE <<>>) \o calls
        ELSE log[q]]

max_workers == 4

\* Variant: the grid and the statistics kept in one place for all calls,
\* which holds those of the latest-submitted call that has computed them.
TaskResult_Shared(locals, i, filename) ==
    LET last == CHOOSE j \in DOMAIN locals :
                    /\ locals[j].center_data # None
                    /\ \A k \in DOMAIN locals : locals[k].center_data # None => k <= j
    IN  Entry(locals[last].center_data, locals[last].stats, filename)

\* return (filename, center_data, stats): the locals of the i-th call
TaskResult(locals, i, filename) ==
    Entry(locals[i].center_data, locals[i].stats, filename)

\* Variant: the collecting loop left after the first future.
Exhausted_First(done, futures) == done # {}

\* `for future in as_completed(future_to_path)` ends when every future has
\* been yielded.
Exhausted(done, futures) == done = futures

\* Variant: the with block entered without waiting for the lock.
LockFree_NoLock(lock) == TRUE

\* threading.Lock: acquire() goes through when no thread holds the lock.
LockFree(lock) == lock = 0

\* Variant: a pool of one worker thread.
FreeWorker_Single(busy) == busy < 1

\* ThreadPoolExecutor(max_workers=4): a queued call is taken up while
\* fewer than max_workers calls are running.
FreeWorker(busy) == busy < max_workers

\* Variant: break in place of continue after a failed load.
IndexAfterFailure_Break(i, n) == n + 1

\* The loop index after `continue` in process_folder_data.
IndexAfterFailure(i, n) == i + 1

\* Variant: len(folder_data) without the + 1.
NextFileId_Len(d) == FileId(Cardinality(DOMAIN d))

\* f"File_{len(folder_data) + 1:02d}"
NextFileId(d) == FileId(Cardinality(DOMAIN d) + 1)

\* Variant: `return` in place of going on to the next folder.
NextFolder_Stop(i, n) == n + 1

\* The index of the folder `for folder in folders` goes on to after a
\* folder without results.
NextFolder(i, n) == i + 1

\* Variant: folder_data emptied for every folder, holding only the results
\* of the folder at hand.
MergeResults_Replace(d, file_results, i) ==
    [id \in {FileId(k) : k \in i..Len(file_results)} |->
        file_results[CHOOSE k \in i..Len(file_results) : FileId(k) = id]]

\* The loop `for i, (...) in enumerate(file_results, 1)` of analyze_warpage,
\* from the i-th result on: folder_data[file_id] = (center_data, stats, filename)
RECURSIVE MergeResults(_, _, _)
MergeResults(d, file_results, i) ==
    IF i > Len(file_results) THEN d
    ELSE MergeResults(DictPut(d, FileId(i), file_results[i]), file_results, i + 1)

\* The same loop for file_info (file_size is read from the file system and
\* is left out).
RECURSIVE MergeInfo(_, _, _, _)
MergeInfo(d, folder, file_results, i) ==
    IF i > Len(file_results) THEN d
    ELSE MergeInfo(DictPut(d, FileId(i),
                           [folder |-> folder, filename |-> file_results[i].filename,
                            data_shape |-> file_results[i].data.shape,
                            display_name |-> FileId(i)]),
                   folder, file_results, i + 1)

(***************************************************************************)
(* find_optimal_color_range and create_batch_summary.  A dict is given as  *)
(* the sequence of its values (or items) in insertion order.               *)
(***************************************************************************)
\* x < y on floats: False when either side is NaN.
FLess(x, y) == ~isnan(x) /\ ~isnan(y) /\ x.v < y.v

\* Python's min(list) / max(list): the first smallest / largest element.
RECURSIVE PyMinFrom(_, _)
PyMinFrom(cur, s) ==
    IF s = <<>> THEN cur
    ELSE PyMinFrom(IF FLess(Head(s), cur) THEN Head(s) ELSE cur, Tail(s))
RECURSIVE PyMaxFrom(_, _)
PyMaxFrom(cur, s) ==
    IF s = <<>> THEN cur
    ELSE PyMaxFrom(IF FLess(cur, Head(s)) THEN Head(s) ELSE cur, Tail(s))
\* Variant: the first element in place of the smallest.
PyMin_First(s) == Head(s)
PyMin(s) == PyMinFrom(Head(s), Tail(s))
PyMax(s) == PyMaxFrom(Head(s), Tail(s))

\* `if data is not None:` and `if len(valid_data) > 0:`
Contributes(data) == data # None /\ Len(ValidData(data)) > 0

\* all_mins / all_maxs after the loop over folder_data.values()
RECURSIVE AllMins(_)
AllMins(datas) ==
    IF datas = <<>> THEN <<>>
    ELSE (IF Contributes(Head(datas)) THEN <<nanmin(Head(datas))>> ELSE <<>>)
         \o AllMins(Tail(datas))
RECURSIVE AllMaxs(_)
AllMaxs(datas) ==
    IF datas = <<>> THEN <<>>
    ELSE (IF Contributes(Head(datas)) THEN <<nanmax(Head(datas))>> ELSE <<>>)
         \o AllMaxs(Tail(datas))

find_optimal_color_range(datas) ==
    IF AllMins(datas) # <<>> /\ AllMaxs(datas) # <<>>
    THEN [vmin |-> PyMin(AllMins(datas)), vmax |-> PyMax(AllMaxs(datas))]
    ELSE [vmin |-> Num(0), vmax |-> Num(1)]

\* np.min / np.max of a list of floats: NaN as soon as one element is NaN.
NpMin(s) == IF \E i \in 1..Len(s) : isnan(s[i]) THEN NaN ELSE PyMin(s)
NpMax(s) == IF \E i \in 1..Len(s) : isnan(s[i]) THEN NaN ELSE PyMax(s)

\* The product of the denominators of a list of fractions.
RECURSIVE DenProd(_)
DenProd(s) == IF s = <<>> THEN 1 ELSE Head(s).d * DenProd(Tail(s))

\* The numerators of a list of fractions over their common denominator.
Scaled(s) == [i \in 1..Len(s) |-> s[i].n * (DenProd(s) \div s[i].d)]

\* np.mean of a list of fractions: NaN as soon as one element is NaN.
NpMean(s) ==
    IF \E i \in 1..Len(s) : isnan(s[i]) THEN NaN
    ELSE Frac(SumSeq(Scaled(s)), Len(s) * DenProd(s))

\* np.std of a list of fractions, as its square: with k elements M[i]/D of
\* sum S/D, sum((M[i]/D - S/(k*D))^2) / k = sum((k*M[i] - S)^2) / (k^3 * D^2).
NpStd(s) ==
    IF \E i \in 1..Len(s) : isnan(s[i]) THEN NaN
    ELSE LET k == Len(s)
             S == SumSeq(Scaled(s))
             sqr == [i \in 1..k |-> (k * Scaled(s)[i] - S) * (k * Scaled(s)[i] - S)]
         IN  Frac(SumSeq(sqr), k * k * k * DenProd(s) * DenProd(s))

\* A float as a fraction.
AsFrac(x) == IF isnan(x) THEN NaN ELSE Frac(x.v, 1)

\* One item of folder_data.items()
Item(file_id, e) == [file_id |-> file_id, entry |-> e]

\* np.prod(data.shape)
DataPoints(g) == g.shape[1] * g.shape[2]

create_batch_summary(items) ==
    IF items = <<>> THEN [error |-> "No data to summarize"]
    ELSE LET k == Len(items)
             all_means == [i \in 1..k |-> items[i].entry.stats.mean]
             all_stds == [i \in 1..k |-> items[i].entry.stats.std]
             all_ranges == [i \in 1..k |-> items[i].entry.stats.range]
             all_mins == [i \in 1..k |-> items[i].entry.stats.min]
             all_maxs == [i \in 1..k |-> items[i].entry.stats.max]
         IN  [file_count |-> k,
              total_data_points |->
                  SumSeq([i \in 1..k |-> DataPoints(items[i].entry.data)]),
              global_stats |->
                  [mean_of_means |-> NpMean(all_means),
                   std_of_means |-> NpStd(all_means),
                   overall_min |-> NpMin(all_mins),
                   overall_max |-> NpMax(all_maxs),
                   mean_range |-> NpMean([i \in 1..k |-> AsFrac(all_ranges[i])]),
                   max_range |-> NpMax(all_ranges)],
              file_details |->
                  [i \in 1..k |->
                      [file_id |-> items[i].file_id,
                       filename |-> items[i].entry.filename,
                       shape |-> items[i].entry.stats.shape,
                       data_points |-> DataPoints(items[i].entry.data),
                       mean |-> all_means[i],
                       std |-> all_stds[i],
                       min |-> all_mins[i],
                       max |-> all_maxs[i],
                       range |-> all_ranges[i]]]]

(***************************************************************************)
(* Bounds and inputs of the batch and folder runs.                         *)
(***************************************************************************)
MaxBatch == 3
MaxGrids == 2
MaxSide == 4
MaxEntries == 3
MaxFolders == 2
MaxFiles == 2
MaxPool == 4
MaxCandidates == 2
MaxRequests == 3

GoodFile == TextFile(<< <<"1", "0">>, <<"0", "-4000">> >>)
OtherFile == TextFile(<< <<"1", "1">> >>)
JunkFile == TextFile(<< <<"1", "abc">> >>)
\* The files of a batch (two that load to different grids, and a path
\* without file), and the files of a folder.
SampleFiles == {GoodFile, OtherFile, NoFile}

\* A file whose read never returns (a pipe without writer, a stalled mount).
HangFile == [readable |-> TRUE, stalled |-> TRUE]
Returns(file) == file # HangFile
\* The files of a batch some of whose reads may never return.
PoolFiles == {OtherFile, NoFile, HangFile}
DirFiles == {GoodFile, JunkFile}

Half == <<1, 2>>
Fractions == {One, Half}
\* The (row_fraction, col_fraction) given to process_batch_files.
BatchFractions == {<<One, One>>, <<Half, One>>, <<One, Half>>}

\* The i-th path given to process_batch_files (ascending by name).
PathName(i) == "in/a" \o ToString(i) \o ".txt"

FolderName(i) == "d" \o ToString(i)
base_path == "./data/"
DirNames == {"a@_ORI.txt", "b@_ORI.txt", "a@.txt"}

NoDir == [exists |-> FALSE]
Dir(c) == [exists |-> TRUE, content |-> c]
DirStates ==
    {NoDir} \cup
    UNION {{Dir(c) : c \in [E -> DirFiles]} :
              E \in {E \in SUBSET DirNames : Cardinality(E) <= MaxFiles}}

\* All orders of the elements of a finite set.
Perms(S) ==
    {q \in [1..Cardinality(S) -> S] : \A i, j \in 1..Cardinality(S) : q[i] = q[j] => i = j}

\* os.listdir(folder_path): the entries in an arbitrary order, or OSError.
ListDir(dir) ==
    IF ~dir.exists THEN {OSError} ELSE {Listing(q) : q \in Perms(DOMAIN dir.content)}

\* The directories given to find_data_files alone: missing, or at most
\* MaxEntries of these names.
FindNames == {"a@_ORI.txt", "b@_ORI.txt", "a@.txt", "b@.txt", "c.txt", "a.dat"}
FindDirs ==
    {NoDir} \cup
    {Dir([f \in E |-> GoodFile]) : E \in {E \in SUBSET FindNames : Cardinality(E) <= MaxEntries}}

\* What a call of process_folder_data met: whether the folder existed, and
\* the files at the paths find_data_files returned.
Found(dir, paths) ==
    [exists |-> dir.exists,
     files |-> [f \in {Basename(paths[k]) : k \in 1..Len(paths)} |-> dir.content[f]]]

\* The candidate paths given to validate_batch_files and the texts stored
\* under them: empty, one blank line, numeric lines (of equal or differing
\* length), a word on the first line, on the third after a blank line, and
\* on the fourth only.
CandidatePaths == {"in/a.txt", "in/b.ptr", "in/c.dat"}
CandidateTexts ==
    {<<>>,
     << <<>> >>,
     << <<"1", "0">> >>,
     << <<"1", "0">>, <<"1">> >>,
     << <<"abc">> >>,
     << <<"1">>, <<>>, <<"abc">> >>,
     << <<"1">>, <<"0">>, <<"1">>, <<"abc">> >>}
CandidateFiles ==
    {NoPath}
    \cup {Stored(TRUE, t) : t \in CandidateTexts}
    \cup {Stored(FALSE, <<>>), Stored(FALSE, << <<"1", "0">> >>)}


(***************************************************************************)
(* The web server: /api/analyze, /api/all_plots and /api/export_pdf.       *)
(* The data directory is a tree: fs gives, for a folder path relative to   *)
(* DATA_DIR, the files stored in it (NoDir when there is no such folder).  *)
(***************************************************************************)
DATA_DIR == "./data/"

FolderAt(fs, rel) == IF rel \in DOMAIN fs THEN fs[rel] ELSE NoDir

\* The names of the folders directly inside the folder rel.
Subfolders(fs, rel, names) == {n \in names : FolderAt(fs, Join(rel, n)).exists}

\* os.listdir on a folder of the tree: files and folders, in any order.
ListFolder(fs, rel, names) ==
    IF ~FolderAt(fs, rel).exists THEN {OSError}
    ELSE {Listing(q) : q \in Perms(DOMAIN FolderAt(fs, rel).content
                                   \cup Subfolders(fs, rel, names))}

\* What find_data_files may return for a folder of the tree.
FoundPaths(fs, folder, names, use_original_files) ==
    {find_data_files(Join(DATA_DIR, folder), listing, use_original_files) :
        listing \in ListFolder(fs, folder, names)}

\* process_folder_data(base_path, folder, ...) as one call, file_paths being
\* what find_data_files returned: the list it returns, the paths it gave to
\* load_data_from_file, and the path behind every element of the list.
process_folder_data(dir, file_paths, row_fraction, col_fraction) ==
    LET run == [k \in 1..Len(file_paths) |->
                   process_folder_file(dir.content[Basename(file_paths[k])],
                                       row_fraction, col_fraction)]
        kept == MaskIdx([k \in 1..Len(file_paths) |-> run[k].loaded], Len(file_paths))
    IN  [results |-> [n \in 1..Len(kept) |->
                         Entry(run[kept[n]].center_data, run[kept[n]].stats,
                               Basename(file_paths[kept[n]]))],
         loaded |-> file_paths,
         sources |-> [n \in 1..Len(kept) |-> file_paths[kept[n]]]]

\* The outcomes of one such call on the tree.
FolderRuns(fs, folder, names, row_fraction, col_fraction, use_original_files) ==
    {process_folder_data(FolderAt(fs, folder), file_paths, row_fraction, col_fraction) :
        file_paths \in FoundPaths(fs, folder, names, use_original_files)}

\* for root, dirs, files in os.walk(folder_path): for subdir in dirs:
\*     subdirs_found.append(subdir)
\* os.walk yields a folder with the names of its subfolders (in the order
\* the system lists them) and then walks each of them in that order; the
\* loop keeps the bare names.
RECURSIVE WalkDirs(_, _, _), WalkEach(_, _, _, _, _)
WalkDirs(fs, rel, names) ==
    UNION {{dirs \o below : below \in WalkEach(fs, rel, names, dirs, 1)} :
              dirs \in Perms(Subfolders(fs, rel, names))}
WalkEach(fs, rel, names, dirs, i) ==
    IF i > Len(dirs) THEN {<<>>}
    ELSE UNION {{first \o rest : rest \in WalkEach(fs, rel, names, dirs, i + 1)} :
                   first \in WalkDirs(fs, Join(rel, dirs[i]), names)}

\* results.extend(...) over the calls made so far.
ExtendRun(run, more) ==
    [results |-> run.results \o more.results,
     loaded |-> run.loaded \o more.loaded,
     sources |-> run.sources \o more.sources]

\* The loop `for i, subdir in enumerate(subdirs_found)` from the i-th name
\* on: rel_path is the name joined to the selected folder.
RECURSIVE SubdirRuns(_, _, _, _, _, _, _, _, _)
SubdirRuns(fs, folder, names, subdirs_found, i, run, row_fraction, col_fraction, use_original) ==
    IF i > Len(subdirs_found) THEN {run}
    ELSE UNION {SubdirRuns(fs, folder, names, subdirs_found, i + 1, ExtendRun(run, sub),
                           row_fraction, col_fraction, use_original) :
                   sub \in FolderRuns(fs, Join(folder, subdirs_found[i]), names,
                                      row_fraction, col_fraction, use_original)}

\* The main folder and then every subfolder found.
AnalysisRuns(fs, folder, names, row_fraction, col_fraction, use_original) ==
    UNION {UNION {SubdirRuns(fs, folder, names, subdirs_found, 1, main,
                             row_fraction, col_fraction, use_original) :
                     subdirs_found \in WalkDirs(fs, folder, names)} :
              main \in FolderRuns(fs, folder, names, row_fraction, col_fraction,
                                  use_original)}

\* jsonify({'error': ...}) and jsonify({'success': True, ...})
Failure(message) == [success |-> FALSE, error |-> message, body |-> None]
Success(body) == [success |-> TRUE, error |-> "", body |-> body]

NoRun == [results |-> <<>>, loaded |-> <<>>, sources |-> <<>>]

\* analysis_results: File_{i+1:02d} for the i-th result.
AnalysisResults(results) == [id \in {FileId(k) : k \in 1..Len(results)} |->
                                results[CHOOSE k \in 1..Len(results) : FileId(k) = id]]

\* What generate_all_plots returns for the results: the individual plots in
\* the order of the keys (the images themselves are left out).
generate_all_plots(results) ==
    [individual |-> [k \in 1..Len(results) |->
                        [file_id |-> FileId(k), filename |-> results[k].filename]]]

\* summary of the response: folder, file_count, list(analysis_results.keys())
Summary(folder, results) ==
    [folder |-> folder, file_count |-> Len(results),
     files |-> [k \in 1..Len(results) |-> FileId(k)]]

\* The outcomes of the handler of /api/analyze on a request: how far it
\* got, its response, the analysis it built and the calls it made.
\* generate_all_plots returns (plots_ok) or raises.
analyze(fs, names, request) ==
    LET row_fraction == ParseFloat(request.row_fraction)
        folder == request.folder
    IN  IF row_fraction = ValueError
        THEN {[stage |-> "bad_request", response |-> Failure("Analysis failed"),
               analysis |-> None, run |-> NoRun]}
        ELSE IF folder = ""
        THEN {[stage |-> "no_folder", response |-> Failure("No folder selected"),
               analysis |-> None, run |-> NoRun]}
        ELSE IF ~FolderAt(fs, folder).exists
        THEN {[stage |-> "not_found", response |-> Failure("Folder not found"),
               analysis |-> None, run |-> NoRun]}
        ELSE UNION {
             IF run.results = <<>>
             THEN {[stage |-> "no_data", response |-> Failure("No data files found"),
                    analysis |-> None, run |-> run]}
             ELSE {IF ~plots_ok
                   THEN [stage |-> "plots_failed", response |-> Failure("Analysis failed"),
                         analysis |-> None, run |-> run]
                   ELSE [stage |-> "done",
                         response |-> Success(Summary(folder, run.results)),
                         analysis |-> [folder |-> folder,
                                       results |-> AnalysisResults(run.results),
                                       plots |-> generate_all_plots(run.results)],
                         run |-> run] : plots_ok \in BOOLEAN} :
                 run \in AnalysisRuns(fs, folder, names, <<row_fraction.v, 1>>, One, TRUE)}

\* Variant: current_analysis is cleared when a request fails.
StoredAfter_Reset(current, outcome) ==
    IF outcome.stage = "done" THEN outcome.analysis ELSE None

\* current_analysis after the handler: assigned once, after
\* generate_all_plots has returned.
StoredAfter(current, outcome) ==
    IF outcome.stage = "done" THEN outcome.analysis ELSE current

\* get_all_plots
get_all_plots(current) ==
    IF current = None THEN Failure("No analysis data available")
    ELSE Success([plots |-> current.plots,
                  summary |-> [folder |-> current.folder,
                               file_count |-> Cardinality(DOMAIN current.results),
                               files |-> [k \in 1..Cardinality(DOMAIN current.results) |->
                                             FileId(k)]]])

\* export_pdf: the report is written from the stored plots and results
\* (pdf_ok: export_to_pdf_from_webui_plots returns the path of a file).
export_pdf(current, pdf_ok) ==
    IF current = None THEN Failure("No analysis data available")
    ELSE IF ~pdf_ok THEN Failure("PDF export failed")
    ELSE Success([plots |-> current.plots,
                  summary |-> [folder |-> current.folder,
                               file_count |-> Cardinality(DOMAIN current.results),
                               files |-> [k \in 1..Cardinality(DOMAIN current.results) |->
                                             FileId(k)]]])

\* The data directory of the web server: the folder d1 with the
\* subfolders s and t and a folder t inside s, and the folder d2; each of
\* them may be missing (with all it holds), and each holds at most one
\* data file.
SubdirNames == {"s", "t"}
WebFolders == {"d1", "d1/s", "d1/t", "d1/s/t", "d2"}
WebContents == {<<>>, [f \in {"a@_ORI.txt"} |-> GoodFile]}
WebTrees ==
    {fs \in [WebFolders -> {NoDir} \cup {Dir(c) : c \in WebContents}] :
        /\ fs["d1/s"].exists => fs["d1"].exists
        /\ fs["d1/t"].exists => fs["d1"].exists
        /\ fs["d1/s/t"].exists => fs["d1/s"].exists}

\* The bodies of the requests to /api/analyze: the folder ("" when none is
\* given) and row_fraction.
AnalyzeRequests == [folder : {"", "d1", "d2"}, row_fraction : {"1", "abc"}]
NoRequest == [folder |-> "", row_fraction |-> "1"]

(***************************************************************************)
(* State.                                                                  *)
(*   ld_*  one call of load_data_from_file                                 *)
(*   st_*  one call of calculate_statistics                                *)
(*   entry, row_fraction, col_fraction: the entry point and its arguments  *)
(*   process_batch_files: file_paths, disk, task, future, progress_lock,   *)
(*       processed_count, printed, folder_data, yielded, b_pc              *)
(*   analyze_warpage and the process_folder_data call it runs: folders,    *)
(*       use_original_files, a_pc, a_idx, a_folder_data, file_info,        *)
(*       pfd_pc, pfd_paths, pfd_i, results, successful_files, failed_files *)
(*   the file system as these calls meet it: cur_dir, the directory that   *)
(*       os.listdir read for the folder in progress, and listed, for every *)
(*       folder already done, whether it existed and the files found in it *)
(*   ag_*  one call of find_optimal_color_range or create_batch_summary    *)
(*   ex_*  one call of extract_center_region; ex_grid is the array the     *)
(*       caller passes, ex_before its contents when the call was made      *)
(*   fd_*  calls of find_data_files on one directory                       *)
(*   steps: for every file path a run has taken up, the calls made for it  *)
(*       so far, in order                                                  *)
(*   vb_*  one call of validate_batch_files; vb_fs is what the paths lead  *)
(*       to                                                                *)
(*   the web server: web_fs, the data directory; current_analysis; and,    *)
(*       of the requests handled so far, their number w_count, the last    *)
(*       one with its response w_last, current_analysis as that request    *)
(*       met it w_before, and the body of the last successful analysis     *)
(*       w_success                                                         *)
(***************************************************************************)
VARIABLES ld_file, ld_pc, ld_out, st_grid, st_pc, st_out,
          entry, row_fraction, col_fraction,
          file_paths, disk, task, future, progress_lock, processed_count,
          printed, folder_data, yielded, b_pc,
          folders, use_original_files, a_pc, a_idx, a_folder_data,
          file_info, pfd_pc, pfd_paths, pfd_i, results, successful_files,
          failed_files, cur_dir, listed,
          ag_data, ag_pc, ag_range, ag_summary,
          ex_grid, ex_before, ex_row, ex_col, ex_pc, ex_out,
          fd_dir, fd_runs,
          steps,
          vb_paths, vb_fs, vb_pc, vb_out,
          web_fs, current_analysis, w_count, w_last, w_before, w_success

ldVars == <<ld_file, ld_pc, ld_out>>
stVars == <<st_grid, st_pc, st_out>>
cfgVars == <<entry, row_fraction, col_fraction>>
bInVars == <<file_paths, disk>>
bVars == <<task, future, progress_lock, processed_count, printed, folder_data,
           yielded, b_pc>>
aInVars == <<folders, use_original_files>>
pfdVars == <<pfd_pc, pfd_paths, pfd_i, results, successful_files, failed_files>>
aVars == <<a_pc, a_idx, a_folder_data, file_info>>
fsVars == <<cur_dir, listed>>
agVars == <<ag_data, ag_pc, ag_range, ag_summary>>
exVars == <<ex_grid, ex_before, ex_row, ex_col, ex_pc, ex_out>>
fdVars == <<fd_dir, fd_runs>>
fnVars == <<agVars, exVars, fdVars>>
logVars == <<steps>>
vbVars == <<vb_paths, vb_fs, vb_pc, vb_out>>
webVars == <<web_fs, current_analysis, w_count, w_last, w_before, w_success>>
runVars == <<cfgVars, logVars, bInVars, bVars, aInVars, aVars, pfdVars, fsVars, fnVars>>
vars == <<ldVars, stVars, runVars, vbVars, webVars>>

\* The shapes (lines, tokens per line) of a text of at most MaxCells tokens.
TextShapes == {sh \in (0..MaxCells) \X (1..MaxCells) : sh[1] * sh[2] <= MaxCells}

\* The rectangular texts over the tokens T.
TokenGrids(T) == UNION {[1..sh[1] -> [1..sh[2] -> T]] : sh \in TextShapes}

\* A text with one token replaced by a word, or with the last token of one
\* line missing (a blank line when the line had one token).
WithJunk(g, i, j) == [g EXCEPT ![i][j] = "abc"]
ShortLine(g, i) == [g EXCEPT ![i] = SubSeq(g[i], 1, Len(g[i]) - 1)]

\* The files given to load_data_from_file: unreadable; every rectangular
\* text over the numeric tokens; and the texts over "0" and "1" with one
\* such defect.
RawFiles ==
    {NoFile}
    \cup {TextFile(g) : g \in TokenGrids(NumericTokens)}
    \cup UNION {{TextFile(WithJunk(g, i, j)) : i \in 1..Len(g), j \in 1..Len(g[1])} :
                   g \in TokenGrids({"0", "1"}) \ {<<>>}}
    \cup UNION {{TextFile(ShortLine(g, i)) : i \in 1..Len(g)} :
                   g \in TokenGrids({"0", "1"}) \ {<<>>}}

\* The values of the arrays given to calculate_statistics.
StatValues == {NaN, Num(-3), Num(0), Num(1), Num(4)}

\* All arrays of shape (r, c) over the values V.
ArraysOf(r, c, V) == {Array(r, c, rows) : rows \in [1..r -> [1..c -> V]]}

\* The arrays of at most MaxCells entries, those without rows or without
\* columns included.
StatGrids ==
    UNION {ArraysOf(sh[1], sh[2], StatValues) :
              sh \in {sh \in (0..MaxCells) \X (0..MaxCells) : sh[1] * sh[2] <= MaxCells}}

\* The grid of shape (r, c) whose entry at row i, column j is 10 * i + j:
\* every entry tells its position.
IndexGrid(r, c) == Array(r, c, [i \in 1..r |-> [j \in 1..c |-> Num(10 * i + j)]])

\* The grids given to extract_center_region, and the retention fractions:
\* 1, 1/2, 1/4 and 3/4, which binary floating point holds exactly, as it
\* does every margin and product computed from them for these sizes.
ExGrids == {IndexGrid(r, c) : r \in 0..MaxSide, c \in 0..MaxSide}
ExFractions == {One, Half, <<1, 4>>, <<3, 4>>}

\* The grids of a Dataset Collection given to find_optimal_color_range and
\* create_batch_summary: one row of two values, or no entry at all.
AggGrids == ArraysOf(1, 2, {NaN, Num(-3), Num(1), Num(4)}) \cup {Array(0, 0, <<>>)}

LdIdle == ld_file = NoFile /\ ld_pc = "idle" /\ ld_out = None
StIdle == st_grid = Array(0, 0, <<>>) /\ st_pc = "idle" /\ st_out = None

BatchIdle ==
    /\ file_paths = <<>>
    /\ disk = <<>>
    /\ task = <<>>
    /\ future = <<>>
    /\ progress_lock = 0
    /\ processed_count = 0
    /\ printed = <<>>
    /\ folder_data = <<>>
    /\ yielded = {}
    /\ b_pc = "idle"

AnalyzeIdle ==
    /\ folders = <<>>
    /\ use_original_files = TRUE
    /\ cur_dir = NoDir
    /\ listed = <<>>
    /\ a_pc = "idle"
    /\ a_idx = 1
    /\ a_folder_data = <<>>
    /\ file_info = <<>>
    /\ pfd_pc = "idle"
    /\ pfd_paths = <<>>
    /\ pfd_i = 1
    /\ results = <<>>
    /\ successful_files = 0
    /\ failed_files = 0

AggIdle == ag_data = <<>> /\ ag_pc = "idle" /\ ag_range = None /\ ag_summary = None
ExIdle ==
    /\ ex_grid = Array(0, 0, <<>>)
    /\ ex_before = Array(0, 0, <<>>)
    /\ ex_row = One
    /\ ex_col = One
    /\ ex_pc = "idle"
    /\ ex_out = None
FdIdle == fd_dir = NoDir /\ fd_runs = <<>>
VbIdle == vb_paths = <<>> /\ vb_fs = <<>> /\ vb_pc = "idle" /\ vb_out = None
NoCall == [endpoint |-> "none", request |-> NoRequest, stage |-> "",
           response |-> Failure(""), run |-> NoRun]
WebIdle ==
    /\ web_fs = <<>>
    /\ current_analysis = None
    /\ w_count = 0
    /\ w_last = NoCall
    /\ w_before = None
    /\ w_success = None
FnIdle == AggIdle /\ ExIdle /\ FdIdle

RunIdle ==
    /\ entry = "none"
    /\ steps = <<>>
    /\ row_fraction = One
    /\ col_fraction = One
    /\ BatchIdle
    /\ AnalyzeIdle
    /\ FnIdle

(***************************************************************************)
(* load_data_from_file(file_path)                                          *)
(***************************************************************************)
InitLoad ==
    /\ ld_file \in RawFiles
    /\ ld_pc = "start"
    /\ ld_out = None
    /\ StIdle
    /\ VbIdle
    /\ WebIdle
    /\ RunIdle

Load ==
    /\ ld_pc = "start"
    /\ ld_out' = load_data_from_file(ld_file)
    /\ ld_pc' = "done"
    /\ UNCHANGED <<ld_file, stVars, vbVars, webVars, runVars>>

NextLoad == Load

SpecLoad == InitLoad /\ [][NextLoad]_vars

(***************************************************************************)
(* calculate_statistics(data_array)                                        *)
(***************************************************************************)
InitStats ==
    /\ st_grid \in StatGrids
    /\ st_pc = "start"
    /\ st_out = None
    /\ LdIdle
    /\ VbIdle
    /\ WebIdle
    /\ RunIdle

Statistics ==
    /\ st_pc = "start"
    /\ st_out' = calculate_statistics(st_grid)
    /\ st_pc' = "done"
    /\ UNCHANGED <<st_grid, ldVars, vbVars, webVars, runVars>>

NextStats == Statistics

SpecStats == InitStats /\ [][NextStats]_vars

(***************************************************************************)
(* find_optimal_color_range(folder_data) and create_batch_summary          *)
(* (folder_data) on one Dataset Collection.  ag_data holds the grids of    *)
(* the collection in insertion order; find_optimal_color_range also        *)
(* accepts None in place of a grid.                                        *)
(***************************************************************************)
InitAgg ==
    /\ \E n \in 0..MaxGrids : ag_data \in [1..n -> AggGrids \cup {None}]
    /\ ag_pc = "start"
    /\ ag_range = None
    /\ ag_summary = None
    /\ LdIdle
    /\ StIdle
    /\ VbIdle
    /\ WebIdle
    /\ entry = "none"
    /\ steps = <<>>
    /\ row_fraction = One
    /\ col_fraction = One
    /\ BatchIdle
    /\ AnalyzeIdle
    /\ ExIdle
    /\ FdIdle

\* The items of the collection: grid k under File_{k:02d} with its statistics.
AggItems ==
    [k \in 1..Len(ag_data) |->
        Item(FileId(k), Entry(ag_data[k], calculate_statistics(ag_data[k]),
                              Basename(PathName(k))))]

ColorRange ==
    /\ ag_pc = "start"
    /\ ag_range = None
    /\ ag_range' = find_optimal_color_range(ag_data)
    /\ UNCHANGED <<ag_data, ag_pc, ag_summary>>
    /\ UNCHANGED <<ldVars, stVars, vbVars, webVars, exVars, fdVars>>
    /\ UNCHANGED <<cfgVars, logVars, bInVars, bVars, aInVars, aVars, pfdVars, fsVars>>

\* create_batch_summary unpacks every value as (data, stats, filename).
BatchSummary ==
    /\ ag_pc = "start"
    /\ ag_summary = None
    /\ \A k \in 1..Len(ag_data) : ag_data[k] # None
    /\ ag_summary' = create_batch_summary(AggItems)
    /\ UNCHANGED <<ag_data, ag_pc, ag_range>>
    /\ UNCHANGED <<ldVars, stVars, vbVars, webVars, exVars, fdVars>>
    /\ UNCHANGED <<cfgVars, logVars, bInVars, bVars, aInVars, aVars, pfdVars, fsVars>>

NextAgg == ColorRange \/ BatchSummary

SpecAgg == InitAgg /\ [][NextAgg]_vars

(***************************************************************************)
(* extract_center_region(data_array, row_fraction, col_fraction)           *)
(***************************************************************************)
InitExtract ==
    /\ ex_grid \in ExGrids
    /\ ex_before = ex_grid
    /\ ex_row \in ExFractions
    /\ ex_col \in ExFractions
    /\ ex_pc = "start"
    /\ ex_out = None
    /\ LdIdle
    /\ StIdle
    /\ VbIdle
    /\ WebIdle
    /\ entry = "none"
    /\ steps = <<>>
    /\ row_fraction = One
    /\ col_fraction = One
    /\ BatchIdle
    /\ AnalyzeIdle
    /\ AggIdle
    /\ FdIdle

\* The function reads data_array and never assigns to it.
Extract ==
    /\ ex_pc = "start"
    /\ ex_out' = extract_center_region(ex_grid, ex_row, ex_col)
    /\ ex_pc' = "done"
    /\ UNCHANGED <<ex_grid, ex_before, ex_row, ex_col>>
    /\ UNCHANGED <<ldVars, stVars, vbVars, webVars, agVars, fdVars>>
    /\ UNCHANGED <<cfgVars, logVars, bInVars, bVars, aInVars, aVars, pfdVars, fsVars>>

NextExtract == Extract

SpecExtract == InitExtract /\ [][NextExtract]_vars

(***************************************************************************)
(* validate_batch_files(file_paths) on a list of at most MaxCandidates     *)
(* candidate paths.                                                        *)
(***************************************************************************)
InitValidate ==
    /\ vb_fs \in [CandidatePaths -> CandidateFiles]
    /\ \E n \in 0..MaxCandidates : vb_paths \in [1..n -> CandidatePaths]
    /\ vb_pc = "call"
    /\ vb_out = None
    /\ LdIdle
    /\ StIdle
    /\ WebIdle
    /\ RunIdle

Validate ==
    /\ vb_pc = "call"
    /\ vb_out' = validate_batch_files(vb_paths, vb_fs)
    /\ vb_pc' = "done"
    /\ UNCHANGED <<vb_paths, vb_fs>>
    /\ UNCHANGED <<ldVars, stVars, webVars, runVars>>

NextValidate == Validate

SpecValidate == InitValidate /\ [][NextValidate]_vars

(***************************************************************************)
(* The web server handling at most MaxRequests requests, one at a time:    *)
(* POST /api/analyze, GET /api/all_plots and GET /api/export_pdf.          *)
(***************************************************************************)
InitWeb ==
    /\ web_fs \in WebTrees
    /\ current_analysis = None
    /\ w_count = 0
    /\ w_last = NoCall
    /\ w_before = None
    /\ w_success = None
    /\ LdIdle
    /\ StIdle
    /\ VbIdle
    /\ RunIdle

Analyze ==
    /\ w_count < MaxRequests
    /\ \E request \in AnalyzeRequests :
       \E outcome \in analyze(web_fs, SubdirNames, request) :
           /\ current_analysis' = StoredAfter(current_analysis, outcome)
           /\ w_last' = [endpoint |-> "analyze", request |-> request,
                         stage |-> outcome.stage, response |-> outcome.response,
                         run |-> outcome.run]
           /\ w_success' = IF outcome.response.success
                           THEN [plots |-> generate_all_plots(outcome.run.results),
                                 summary |-> outcome.response.body]
                           ELSE w_success
    /\ w_before' = current_analysis
    /\ w_count' = w_count + 1
    /\ UNCHANGED web_fs
    /\ UNCHANGED <<ldVars, stVars, vbVars, runVars>>

GetAllPlots ==
    /\ w_count < MaxRequests
    /\ w_last' = [endpoint |-> "all_plots", request |-> NoRequest, stage |-> "",
                  response |-> get_all_plots(current_analysis), run |-> NoRun]
    /\ w_before' = current_analysis
    /\ w_count' = w_count + 1
    /\ UNCHANGED <<web_fs, current_analysis, w_success>>
    /\ UNCHANGED <<ldVars, stVars, vbVars, runVars>>

ExportPdf ==
    /\ w_count < MaxRequests
    /\ \E pdf_ok \in BOOLEAN :
           w_last' = [endpoint |-> "export_pdf", request |-> NoRequest, stage |-> "",
                      response |-> export_pdf(current_analysis, pdf_ok), run |-> NoRun]
    /\ w_before' = current_analysis
    /\ w_count' = w_count + 1
    /\ UNCHANGED <<web_fs, current_analysis, w_success>>
    /\ UNCHANGED <<ldVars, stVars, vbVars, runVars>>

NextWeb == Analyze \/ GetAllPlots \/ ExportPdf

SpecWeb == InitWeb /\ [][NextWeb]_vars

(***************************************************************************)
(* find_data_files(folder_path, use_original_files) called twice on one    *)
(* directory: fd_runs holds, for each call, the selector, what os.listdir  *)
(* returned and the list the call returned.                                *)
(***************************************************************************)
InitFind ==
    /\ fd_dir \in FindDirs
    /\ fd_runs = <<>>
    /\ LdIdle
    /\ StIdle
    /\ VbIdle
    /\ WebIdle
    /\ entry = "none"
    /\ steps = <<>>
    /\ row_fraction = One
    /\ col_fraction = One
    /\ BatchIdle
    /\ AnalyzeIdle
    /\ AggIdle
    /\ ExIdle

FindRun ==
    /\ Len(fd_runs) < 2
    /\ \E sel \in BOOLEAN :
       \E listing \in ListDir(fd_dir) :
           fd_runs' = Append(fd_runs,
                             [sel |-> sel, listing |-> listing,
                              out |-> find_data_files(Join(base_path, FolderName(1)),
                                                      listing, sel)])
    /\ UNCHANGED fd_dir
    /\ UNCHANGED <<ldVars, stVars, vbVars, webVars, agVars, exVars>>
    /\ UNCHANGED <<cfgVars, logVars, bInVars, bVars, aInVars, aVars, pfdVars, fsVars>>

NextFind == FindRun

SpecFind == InitFind /\ [][NextFind]_vars

(***************************************************************************)
(* process_batch_files(file_paths, row_fraction, col_fraction)             *)
(*                                                                         *)
(* task[i] is the call process_single_file(file_paths[i]) submitted to the *)
(* pool: "new" before submit, "queued" in the pool's work queue, "running" *)
(* on a worker thread, "locking" waiting for progress_lock, "locked"       *)
(* inside the with block, "done" once the future has its result.           *)
(***************************************************************************)
Pending == [pending |-> TRUE]

InitBatch ==
    /\ entry = "batch"
    /\ steps = <<>>
    /\ \E fractions \in BatchFractions :
           /\ row_fraction = fractions[1]
           /\ col_fraction = fractions[2]
    /\ \E n \in 0..MaxBatch :
           /\ file_paths = [i \in 1..n |-> PathName(i)]
           /\ disk \in [{PathName(i) : i \in 1..n} -> SampleFiles]
           /\ task = [i \in 1..n |-> [pc |-> "new", center_data |-> None, stats |-> None,
                                      count |-> 0]]
           /\ future = [i \in 1..n |-> Pending]
    /\ progress_lock = 0
    /\ processed_count = 0
    /\ printed = <<>>
    /\ folder_data = <<>>
    /\ yielded = {}
    /\ b_pc = "start"
    /\ AnalyzeIdle

Tasks == 1..Len(file_paths)

\* executor.submit(process_single_file, path) for every path
Submit ==
    /\ entry = "batch"
    /\ b_pc = "start"
    /\ task' = [i \in Tasks |-> [task[i] EXCEPT !.pc = "queued"]]
    /\ b_pc' = "collect"
    /\ UNCHANGED <<future, progress_lock, processed_count, printed, folder_data, yielded>>
    /\ UNCHANGED <<ldVars, stVars, vbVars, webVars, fnVars, cfgVars, logVars, bInVars, aInVars, aVars, pfdVars, fsVars>>

\* A free worker thread takes the oldest queued task.
StartTask(i) ==
    /\ entry = "batch"
    /\ task[i].pc = "queued"
    /\ \A j \in Tasks : j < i => task[j].pc # "queued"
    /\ FreeWorker(Cardinality({j \in Tasks : task[j].pc \in {"running", "locking", "locked"}}))
    /\ task' = [task EXCEPT ![i].pc = "running"]
    /\ UNCHANGED <<future, progress_lock, processed_count, printed, folder_data, yielded, b_pc>>
    /\ UNCHANGED <<ldVars, stVars, vbVars, webVars, fnVars, cfgVars, logVars, bInVars, aInVars, aVars, pfdVars, fsVars>>

\* process_single_file up to the with block: load, skip on failure,
\* otherwise extract and compute the statistics (all on thread-local data).
ProcessFile(i) ==
    /\ entry = "batch"
    /\ task[i].pc = "running"
    /\ Returns(disk[file_paths[i]])
    /\ LET r == process_single_file(disk[file_paths[i]], row_fraction, col_fraction)
       IN  /\ steps' = AddSteps(steps, file_paths[i], r.calls)
           /\ IF ~r.loaded
              THEN /\ future' = [future EXCEPT ![i] = None]
                   /\ task' = [task EXCEPT ![i].pc = "done"]
              ELSE /\ task' = [task EXCEPT ![i] =
                                  [pc |-> "locking", center_data |-> r.center_data,
                                   stats |-> r.stats, count |-> 0]]
                   /\ UNCHANGED future
    /\ UNCHANGED <<progress_lock, processed_count, printed, folder_data, yielded, b_pc>>
    /\ UNCHANGED <<ldVars, stVars, vbVars, webVars, fnVars, cfgVars, bInVars, aInVars, aVars, pfdVars, fsVars>>

\* with progress_lock: (enter), and the read of processed_count[0] that
\* `+= 1` starts with.
AcquireLock(i) ==
    /\ entry = "batch"
    /\ task[i].pc = "locking"
    /\ LockFree(progress_lock)
    /\ progress_lock' = i
    /\ task' = [task EXCEPT ![i].pc = "locked", ![i].count = processed_count]
    /\ UNCHANGED <<future, processed_count, printed, folder_data, yielded, b_pc>>
    /\ UNCHANGED <<ldVars, stVars, vbVars, webVars, fnVars, cfgVars, logVars, bInVars, aInVars, aVars, pfdVars, fsVars>>

\* The store of `processed_count[0] += 1`; print; leave the with block;
\* return (filename, center_data, stats), which ends the call and its locals.
UpdateProgress(i) ==
    /\ entry = "batch"
    /\ task[i].pc = "locked"
    /\ processed_count' = task[i].count + 1
    /\ printed' = Append(printed, task[i].count + 1)
    /\ progress_lock' = 0
    /\ future' = [future EXCEPT ![i] = TaskResult(task, i, Basename(file_paths[i]))]
    /\ task' = [task EXCEPT ![i].pc = "done", ![i].count = 0]
    /\ UNCHANGED <<folder_data, yielded, b_pc>>
    /\ UNCHANGED <<ldVars, stVars, vbVars, webVars, fnVars, cfgVars, logVars, bInVars, aInVars, aVars, pfdVars, fsVars>>

\* One iteration of `for future in as_completed(future_to_path)`: any
\* finished future not yet yielded.
Collect(i) ==
    /\ entry = "batch"
    /\ b_pc = "collect"
    /\ task[i].pc = "done"
    /\ i \notin yielded
    /\ yielded' = yielded \cup {i}
    /\ IF future[i] # None
       THEN folder_data' = DictPut(folder_data, NextFileId(folder_data),
                                   Entry(future[i].data, future[i].stats,
                                         future[i].filename))
       ELSE UNCHANGED folder_data
    /\ UNCHANGED <<task, future, progress_lock, processed_count, printed, b_pc>>
    /\ UNCHANGED <<ldVars, stVars, vbVars, webVars, fnVars, cfgVars, logVars, bInVars, aInVars, aVars, pfdVars, fsVars>>

\* as_completed is exhausted, the executor shuts down, folder_data is returned.
ReturnBatch ==
    /\ entry = "batch"
    /\ b_pc = "collect"
    /\ Exhausted(yielded, Tasks)
    /\ b_pc' = "returned"
    /\ UNCHANGED <<task, future, progress_lock, processed_count, printed, folder_data, yielded>>
    /\ UNCHANGED <<ldVars, stVars, vbVars, webVars, fnVars, cfgVars, logVars, bInVars, aInVars, aVars, pfdVars, fsVars>>

NextBatch ==
    \/ Submit
    \/ \E i \in Tasks : StartTask(i)
    \/ \E i \in Tasks : ProcessFile(i)
    \/ \E i \in Tasks : AcquireLock(i)
    \/ \E i \in Tasks : UpdateProgress(i)
    \/ \E i \in Tasks : Collect(i)
    \/ ReturnBatch

(***************************************************************************)
(* process_batch_files on files some of which never finish reading, with   *)
(* the scheduling the threads get: a step that can be taken is not put off *)
(* forever.  A call has finitely many steps, so this is all the progress   *)
(* the pool, the lock and the collecting loop need.                        *)
(***************************************************************************)
InitPool ==
    /\ entry = "batch"
    /\ steps = <<>>
    /\ row_fraction = Half
    /\ col_fraction = One
    /\ \E n \in 0..MaxPool :
           /\ file_paths = [i \in 1..n |-> PathName(i)]
           /\ disk \in [{PathName(i) : i \in 1..n} -> PoolFiles]
           /\ task = [i \in 1..n |-> [pc |-> "new", center_data |-> None, stats |-> None,
                                      count |-> 0]]
           /\ future = [i \in 1..n |-> Pending]
    /\ progress_lock = 0
    /\ processed_count = 0
    /\ printed = <<>>
    /\ folder_data = <<>>
    /\ yielded = {}
    /\ b_pc = "start"
    /\ AnalyzeIdle
    /\ LdIdle
    /\ StIdle
    /\ VbIdle
    /\ WebIdle
    /\ FnIdle

\* A call that is running on a worker thread and whose read returns goes
\* on: it can take the step ProcessFile, and taking it is what moves a call
\* out of "running".  This is weak fairness of ProcessFile with its
\* enabling condition written out.
CanProcess(i) == task[i].pc = "running" /\ Returns(disk[file_paths[i]])
Processing == \E i \in Tasks : task[i].pc = "running" /\ task'[i].pc # "running"
ProcessFairness ==
    []<>(~\E i \in Tasks : CanProcess(i)) \/ []<><<Processing>>_vars

SpecFair ==
    /\ InitPool
    /\ [][NextBatch]_vars
    /\ WF_vars(Submit)
    /\ WF_vars(\E i \in Tasks : StartTask(i))
    /\ ProcessFairness
    /\ WF_vars(\E i \in Tasks : AcquireLock(i))
    /\ WF_vars(\E i \in Tasks : UpdateProgress(i))
    /\ WF_vars(\E i \in Tasks : Collect(i))
    /\ WF_vars(ReturnBatch)

(***************************************************************************)
(* analyze_warpage(config), loading phase, with the calls of               *)
(* process_folder_data(base_path, folder, ...) it makes.                   *)
(***************************************************************************)
InitAnalyze ==
    /\ entry = "analyze"
    /\ steps = <<>>
    /\ row_fraction \in Fractions
    /\ col_fraction \in Fractions
    /\ use_original_files \in BOOLEAN
    /\ \E n \in 0..MaxFolders : folders = [i \in 1..n |-> FolderName(i)]
    /\ cur_dir = NoDir
    /\ listed = <<>>
    /\ a_pc = "folders"
    /\ a_idx = 1
    /\ a_folder_data = <<>>
    /\ file_info = <<>>
    /\ pfd_pc = "idle"
    /\ pfd_paths = <<>>
    /\ pfd_i = 1
    /\ results = <<>>
    /\ successful_files = 0
    /\ failed_files = 0
    /\ BatchIdle

\* process_folder_data finds no files (missing folder or no matching name)
\* and returns []; analyze_warpage goes on to the next folder.
FolderNoFiles ==
    /\ entry = "analyze"
    /\ a_pc = "folders"
    /\ pfd_pc = "idle"
    /\ a_idx <= Len(folders)
    /\ \E dir \in DirStates :
           /\ \E listing \in ListDir(dir) :
                  find_data_files(Join(base_path, folders[a_idx]), listing,
                                  use_original_files) = <<>>
           /\ listed' = Append(listed, Found(dir, <<>>))
    /\ a_idx' = NextFolder(a_idx, Len(folders))
    /\ UNCHANGED <<a_pc, a_folder_data, file_info, pfdVars, cur_dir>>
    /\ UNCHANGED <<ldVars, stVars, vbVars, webVars, fnVars, cfgVars, logVars, bInVars, bVars, aInVars>>

\* process_folder_data finds files and enters its loop.
FolderStart ==
    /\ entry = "analyze"
    /\ a_pc = "folders"
    /\ pfd_pc = "idle"
    /\ a_idx <= Len(folders)
    /\ \E dir \in DirStates :
           \E listing \in ListDir(dir) :
               LET found == find_data_files(Join(base_path, folders[a_idx]), listing,
                                            use_original_files)
               IN  /\ found # <<>>
                   /\ pfd_paths' = found
                   /\ cur_dir' = dir
    /\ pfd_pc' = "loop"
    /\ pfd_i' = 1
    /\ results' = <<>>
    /\ successful_files' = 0
    /\ failed_files' = 0
    /\ UNCHANGED <<aVars, listed>>
    /\ UNCHANGED <<ldVars, stVars, vbVars, webVars, fnVars, cfgVars, logVars, bInVars, bVars, aInVars>>

\* One iteration of `for i, file_path in enumerate(file_paths)`.
FolderFile ==
    /\ entry = "analyze"
    /\ pfd_pc = "loop"
    /\ pfd_i <= Len(pfd_paths)
    /\ LET file_path == pfd_paths[pfd_i]
           filename == Basename(file_path)
           r == process_folder_file(cur_dir.content[filename], row_fraction, col_fraction)
       IN  /\ steps' = AddSteps(steps, file_path, r.calls)
           /\ IF ~r.loaded
              THEN /\ failed_files' = failed_files + 1
                   /\ pfd_i' = IndexAfterFailure(pfd_i, Len(pfd_paths))
                   /\ UNCHANGED <<results, successful_files>>
              ELSE /\ results' = Append(results, Entry(r.center_data, r.stats, filename))
                   /\ successful_files' = successful_files + 1
                   /\ pfd_i' = pfd_i + 1
                   /\ UNCHANGED failed_files
    /\ UNCHANGED <<pfd_pc, pfd_paths, aVars, fsVars>>
    /\ UNCHANGED <<ldVars, stVars, vbVars, webVars, fnVars, cfgVars, bInVars, bVars, aInVars>>

\* process_folder_data returns results; analyze_warpage stores every result
\* under File_{i:02d}, i counting from 1 within this folder.
FolderReturn ==
    /\ entry = "analyze"
    /\ pfd_pc = "loop"
    /\ pfd_i > Len(pfd_paths)
    /\ pfd_pc' = "idle"
    /\ a_folder_data' = MergeResults(a_folder_data, results, 1)
    /\ file_info' = MergeInfo(file_info, folders[a_idx], results, 1)
    /\ a_idx' = a_idx + 1
    /\ listed' = Append(listed, Found(cur_dir, pfd_paths))
    /\ cur_dir' = NoDir
    /\ UNCHANGED <<a_pc, pfd_paths, pfd_i, results, successful_files, failed_files>>
    /\ UNCHANGED <<ldVars, stVars, vbVars, webVars, fnVars, cfgVars, logVars, bInVars, bVars, aInVars>>

\* if not folder_data: print("No data found!"); return None, None
LoadingDone ==
    /\ entry = "analyze"
    /\ a_pc = "folders"
    /\ pfd_pc = "idle"
    /\ a_idx > Len(folders)
    /\ a_pc' = IF DOMAIN a_folder_data = {} THEN "no_data" ELSE "loaded"
    /\ UNCHANGED <<a_idx, a_folder_data, file_info, pfdVars, fsVars>>
    /\ UNCHANGED <<ldVars, stVars, vbVars, webVars, fnVars, cfgVars, logVars, bInVars, bVars, aInVars>>

NextAnalyze ==
    \/ FolderNoFiles
    \/ FolderStart
    \/ FolderFile
    \/ FolderReturn
    \/ LoadingDone

(***************************************************************************)
(* The batch and folder runs: one call of process_batch_files or one call  *)
(* of analyze_warpage.                                                     *)
(***************************************************************************)
Init ==
    /\ LdIdle
    /\ StIdle
    /\ VbIdle
    /\ WebIdle
    /\ FnIdle
    /\ (InitBatch \/ InitAnalyze)

Next == NextBatch \/ NextAnalyze

Spec == Init /\ [][Next]_vars

(***************************************************************************)
(* Properties of load_data_from_file (checked under SpecLoad).             *)
(***************************************************************************)
Sentinels == {-4000, 9999, -9999, 99999, -99999}
IsSentinel(x) == (~x.nan) /\ x.v \in Sentinels

TokenPos(file) ==
    {p \in (1..Len(file.lines)) \X (1..MaxCells) : p[2] <= Len(file.lines[p[1]])}
TokenAt(file, p) == file.lines[p[1]][p[2]]

HasNonNumericToken(file) == \E p \in TokenPos(file) : TokenAt(file, p) = "abc"
Jagged(file) ==
    \E i, k \in 1..Len(file.lines) :
        /\ file.lines[i] # <<>>
        /\ file.lines[k] # <<>>
        /\ Len(file.lines[i]) # Len(file.lines[k])

Cells(g) == (1..g.shape[1]) \X (1..g.shape[2])
Cell(g, p) == g.a[p[1]][p[2]]
Rectangular(g) ==
    /\ Len(g.a) = g.shape[1]
    /\ \A i \in 1..Len(g.a) : Len(g.a[i]) = g.shape[2]

\* C5: load_data_from_file never raises; a missing or unreadable file, a
\* non-numeric token and jagged rows all give None, and every result that
\* is not None is a rectangular 2-D grid.
TheoremC5 ==
    (ld_pc = "done") =>
        /\ ld_out # ValueError
        /\ (~ld_file.readable) => ld_out = None
        /\ (ld_file.readable /\ (HasNonNumericToken(ld_file) \/ Jagged(ld_file)))
               => ld_out = None
        /\ (ld_out # None) => Rectangular(ld_out)

WitnessC5 ==
    /\ ld_pc = "done"
    /\ ld_file.readable
    /\ Jagged(ld_file)
    /\ ~HasNonNumericToken(ld_file)
    /\ ld_out = None

\* The rows of the parsed matrix that hold a value different from zero, and
\* the columns that hold one in such a row.
KeptRows(P) == {i \in 1..P.shape[1] : \E j \in 1..P.shape[2] : ~FloatEq(P.a[i][j], 0)}
KeptCols(P) == {j \in 1..P.shape[2] : \E i \in KeptRows(P) : ~FloatEq(P.a[i][j], 0)}
Kth(S, k) == CHOOSE x \in S : Cardinality({y \in S : y < x}) = k - 1

\* C6: the result is the parsed matrix without its all-zero rows and without
\* the columns that are all zero in the row-filtered matrix; the remaining
\* cells keep their value (a sentinel becomes missing) and their order.
TheoremC6 ==
    (ld_pc = "done" /\ ld_out # None) =>
        LET P == ParseArray(ld_file.lines)
            R == KeptRows(P)
            C == KeptCols(P)
        IN  /\ ld_out.shape = <<Cardinality(R), Cardinality(C)>>
            /\ \A k \in 1..Cardinality(R) : \A l \in 1..Cardinality(C) :
                   LET old == P.a[Kth(R, k)][Kth(C, l)]
                   IN  IF IsSentinel(old) THEN isnan(ld_out.a[k][l])
                       ELSE ld_out.a[k][l] = old

WitnessC6 ==
    /\ ld_pc = "done"
    /\ ld_out # None
    /\ LET P == ParseArray(ld_file.lines)
       IN  /\ Cardinality(KeptRows(P)) < P.shape[1]
           /\ Cardinality(KeptCols(P)) < P.shape[2]
           /\ Cardinality(KeptRows(P)) >= 1

SentinelTokens(file) ==
    {p \in TokenPos(file) : TokenAt(file, p) \in {"-4000", "9999.0"}}
NaNTokens(file) == {p \in TokenPos(file) : TokenAt(file, p) = "nan"}
MissingCells(g) == {p \in Cells(g) : Cell(g, p).nan}

\* No entry equals a sentinel, and every entry of the zero-stripped matrix
\* that is not a sentinel is unchanged.
OnlySentinelsNulled(file, out) ==
    LET Z == RemoveZeroCols(RemoveZeroRows(ParseArray(file.lines)))
    IN  /\ out.shape = Z.shape
        /\ \A p \in Cells(out) :
               /\ ~IsSentinel(Cell(out, p))
               /\ (~IsSentinel(Cell(Z, p))) => Cell(out, p) = Cell(Z, p)

\* C7 as stated: a file with N sentinel values loads to a grid with exactly
\* N missing entries, no entry equal to a sentinel, the rest unchanged.
OriginalC7 ==
    (ld_pc = "done" /\ ld_out # None) =>
        /\ Cardinality(MissingCells(ld_out)) = Cardinality(SentinelTokens(ld_file))
        /\ OnlySentinelsNulled(ld_file, ld_out)

\* C7 amended: the missing entries are the N sentinel values together with
\* the K tokens that float() itself reads as not-a-number ("nan"): exactly
\* N + K missing entries, no entry equal to a sentinel, the rest unchanged.
TheoremC7 ==
    (ld_pc = "done" /\ ld_out # None) =>
        /\ Cardinality(MissingCells(ld_out)) =
               Cardinality(SentinelTokens(ld_file)) + Cardinality(NaNTokens(ld_file))
        /\ OnlySentinelsNulled(ld_file, ld_out)

WitnessC7 ==
    /\ ld_pc = "done"
    /\ ld_out # None
    /\ Cardinality(SentinelTokens(ld_file)) = 2
    /\ \E p, q \in SentinelTokens(ld_file) : TokenAt(ld_file, p) # TokenAt(ld_file, q)
    /\ Cardinality(MissingCells(ld_out)) = 2
    /\ \E p \in Cells(ld_out) : ~Cell(ld_out, p).nan

\* The rows and the columns of a grid whose every entry equals zero (a
\* missing entry equals nothing).
ZeroRows(g) == {i \in 1..g.shape[1] : \A j \in 1..g.shape[2] : Cell(g, <<i, j>>) = Num(0)}
ZeroCols(g) == {j \in 1..g.shape[2] : \A i \in 1..g.shape[1] : Cell(g, <<i, j>>) = Num(0)}

\* C27: a grid returned by load_data_from_file has no row and no column
\* whose entries are all zero, though rows are filtered once and columns
\* once, in that order.
TheoremC27 ==
    (ld_pc = "done" /\ ld_out # None) =>
        /\ ZeroRows(ld_out) = {}
        /\ ZeroCols(ld_out) = {}

WitnessC27 ==
    /\ ld_pc = "done"
    /\ ld_out # None
    /\ LET P == ParseArray(ld_file.lines)
       IN  /\ ZeroRows(P) # {}
           /\ ZeroCols(RemoveZeroRows(P)) # {}
    /\ ld_out.shape[1] >= 1
    /\ ld_out.shape[2] >= 1
    /\ \E p \in Cells(ld_out) : Cell(ld_out, p) = Num(1)

(***************************************************************************)
(* Properties of calculate_statistics (checked under SpecStats).           *)
(***************************************************************************)
ValidCells(g) == {p \in Cells(g) : ~Cell(g, p).nan}
ValidValues(g) == {Cell(g, p).v : p \in ValidCells(g)}
MinOf(S) == CHOOSE m \in S : \A x \in S : m <= x
MaxOf(S) == CHOOSE m \in S : \A x \in S : m >= x

\* The sum of f[p] over the cells p of S.
RECURSIVE SumOver(_, _)
SumOver(f, S) ==
    IF S = {} THEN 0
    ELSE LET p == CHOOSE q \in S : TRUE IN f[p] + SumOver(f, S \ {p})

\* C8: for a grid with a non-missing entry, range is exactly max - min of
\* the same record, max and min being taken over the non-missing entries.
TheoremC8 ==
    (st_pc = "done" /\ ValidCells(st_grid) # {}) =>
        /\ ~st_out.range.nan
        /\ ~st_out.max.nan
        /\ ~st_out.min.nan
        /\ st_out.range.v = st_out.max.v - st_out.min.v
        /\ st_out.range.v = MaxOf(ValidValues(st_grid)) - MinOf(ValidValues(st_grid))

WitnessC8 ==
    /\ st_pc = "done"
    /\ MissingCells(st_grid) # {}
    /\ Cardinality(ValidValues(st_grid)) >= 2
    /\ st_out.range = Num(7)

\* C9: for a grid without any non-missing entry (all missing, zero rows or
\* zero columns) min, max, mean, std and range are the undefined value and
\* shape is the shape of the grid.
TheoremC9 ==
    (st_pc = "done" /\ ValidCells(st_grid) = {}) =>
        /\ st_out.min = NaN
        /\ st_out.max = NaN
        /\ st_out.mean = NaN
        /\ st_out.std = NaN
        /\ st_out.range = NaN
        /\ st_out.shape = st_grid.shape

WitnessC9 ==
    /\ st_pc = "done"
    /\ Cardinality(Cells(st_grid)) >= 2
    /\ ValidCells(st_grid) = {}
    /\ st_out.min = NaN

\* C10: for a grid with a non-missing entry, min, max, mean and std are the
\* reductions of the non-missing values alone: with n such values of sum S,
\* mean = S / n and std^2 = sum((x - S/n)^2) / n.
TheoremC10 ==
    (st_pc = "done" /\ ValidCells(st_grid) # {}) =>
        LET V == ValidCells(st_grid)
            n == Cardinality(V)
            S == SumOver([p \in V |-> Cell(st_grid, p).v], V)
            D == SumOver([p \in V |-> (n * Cell(st_grid, p).v - S)
                                      * (n * Cell(st_grid, p).v - S)], V)
        IN  /\ st_out.min = Num(MinOf(ValidValues(st_grid)))
            /\ st_out.max = Num(MaxOf(ValidValues(st_grid)))
            /\ ~st_out.mean.nan
            /\ st_out.mean.d > 0
            /\ st_out.mean.n * n = S * st_out.mean.d
            /\ ~st_out.std.nan
            /\ st_out.std.d > 0
            /\ st_out.std.n * (n * n * n) = D * st_out.std.d

WitnessC10 ==
    /\ st_pc = "done"
    /\ MissingCells(st_grid) # {}
    /\ Cardinality(ValidCells(st_grid)) >= 2
    /\ ~st_out.mean.nan
    /\ st_out.mean.n # 0
    /\ st_out.std.n # 0

(***************************************************************************)
(* Properties of find_optimal_color_range and create_batch_summary         *)
(* (checked under SpecAgg).                                                *)
(***************************************************************************)
\* The grids of the collection with a non-missing entry, and those without.
WithValid == {k \in 1..Len(ag_data) : ag_data[k] # None /\ ValidCells(ag_data[k]) # {}}
WithoutValid == {k \in 1..Len(ag_data) : ag_data[k] # None /\ ValidCells(ag_data[k]) = {}}
GridMinima == {MinOf(ValidValues(ag_data[k])) : k \in WithValid}
GridMaxima == {MaxOf(ValidValues(ag_data[k])) : k \in WithValid}

\* C11: find_optimal_color_range returns (minimum of the per-grid minima,
\* maximum of the per-grid maxima), each over the non-missing entries, and
\* (0, 1) when the collection is empty or no grid has a valid value.
TheoremC11 ==
    (ag_range # None) =>
        IF WithValid = {}
        THEN ag_range = [vmin |-> Num(0), vmax |-> Num(1)]
        ELSE ag_range = [vmin |-> Num(MinOf(GridMinima)), vmax |-> Num(MaxOf(GridMaxima))]

WitnessC11 ==
    /\ ag_range # None
    /\ Cardinality(WithValid) = 2
    /\ MissingCells(ag_data[1]) # {}
    /\ MinOf(ValidValues(ag_data[1])) > MinOf(ValidValues(ag_data[2]))
    /\ MaxOf(ValidValues(ag_data[1])) > MaxOf(ValidValues(ag_data[2]))
    /\ ag_range = [vmin |-> Num(-3), vmax |-> Num(4)]

\* C12 as stated: when the collection holds a grid without any non-missing
\* entry next to grids with valid data, that grid is skipped:
\* find_optimal_color_range and the overall_min / overall_max of
\* create_batch_summary are the aggregates over the other grids and never
\* the undefined value.
OriginalC12 ==
    (WithoutValid # {} /\ WithValid # {}) =>
        /\ (ag_range # None) =>
               ag_range = [vmin |-> Num(MinOf(GridMinima)),
                           vmax |-> Num(MaxOf(GridMaxima))]
        /\ (ag_summary # None) =>
               /\ ag_summary.global_stats.overall_min = Num(MinOf(GridMinima))
               /\ ag_summary.global_stats.overall_max = Num(MaxOf(GridMaxima))

(***************************************************************************)
(* Properties of extract_center_region (checked under SpecExtract).        *)
(***************************************************************************)
\* floor(n * (1 - fraction) / 2) for the fraction p/q
DropOf(n, f) == (n * (f[2] - f[1])) \div (2 * f[2])

\* The sub-grid of g left when top, bottom, left and right rows and columns
\* are dropped.
Trimmed(g, top, bottom, left, right) ==
    Array(NRows(g) - top - bottom, NCols(g) - left - right,
          [i \in 1..(NRows(g) - top - bottom) |->
              [j \in 1..(NCols(g) - left - right) |-> g.a[top + i][left + j]]])

\* C13: extract_center_region(G, 1, 1) returns G unchanged, same shape and
\* same value in every cell.
TheoremC13 ==
    (ex_pc = "done" /\ ex_row = <<1, 1>> /\ ex_col = <<1, 1>>) =>
        /\ ex_out.shape = ex_before.shape
        /\ \A p \in Cells(ex_before) : Cell(ex_out, p) = Cell(ex_before, p)
        /\ ex_out = ex_before

WitnessC13 ==
    /\ ex_pc = "done"
    /\ ex_row = <<1, 1>>
    /\ ex_col = <<1, 1>>
    /\ ex_before.shape = <<MaxSide, MaxSide>>
    /\ ex_out = ex_before

\* C14 as stated: the rows dropped at the top and at the bottom are both
\* floor(n_rows * (1 - row_fraction) / 2), the columns dropped at the left
\* and at the right both floor(n_cols * (1 - col_fraction) / 2).
OriginalC14 ==
    (ex_pc = "done") =>
        ex_out = Trimmed(ex_before,
                         DropOf(NRows(ex_before), ex_row), DropOf(NRows(ex_before), ex_row),
                         DropOf(NCols(ex_before), ex_col), DropOf(NCols(ex_before), ex_col))

\* C15: the result is a contiguous slice of the input: for one pair of
\* offsets every cell (i, j) of the result is the input cell at
\* (row offset + i, column offset + j); and the input holds after the call
\* what it held before.
TheoremC15 ==
    (ex_pc = "done") =>
        /\ ex_grid = ex_before
        /\ NRows(ex_out) <= NRows(ex_before)
        /\ NCols(ex_out) <= NCols(ex_before)
        /\ \E ro \in 0..(NRows(ex_before) - NRows(ex_out)) :
           \E co \in 0..(NCols(ex_before) - NCols(ex_out)) :
               \A p \in Cells(ex_out) :
                   Cell(ex_out, p) = Cell(ex_before, <<ro + p[1], co + p[2]>>)

WitnessC15 ==
    /\ ex_pc = "done"
    /\ ex_row = <<1, 2>>
    /\ NRows(ex_out) >= 2
    /\ NCols(ex_out) >= 1
    /\ NRows(ex_out) < NRows(ex_before)
    /\ NCols(ex_out) < NCols(ex_before)
    /\ Cell(ex_out, <<1, 1>>) # Cell(ex_before, <<1, 1>>)

\* C28 as stated: from a grid with at least one row and one column, and
\* fractions in (0, 1], the result has at least one row and one column.
OriginalC28 ==
    (/\ ex_pc = "done"
     /\ NRows(ex_before) >= 1
     /\ NCols(ex_before) >= 1
     /\ \A f \in {ex_row, ex_col} : 0 < f[1] /\ f[1] <= f[2]) =>
        /\ NRows(ex_out) >= 1
        /\ NCols(ex_out) >= 1

(***************************************************************************)
(* Properties of find_data_files (checked under SpecFind).                 *)
(***************************************************************************)
\* The entries of the directory, and those the selector's pattern matches.
Entries == IF fd_dir.exists THEN DOMAIN fd_dir.content ELSE {}
Selected(sel) ==
    IF sel THEN {f \in Entries : EndsWith(f, "@_ORI.txt")}
    ELSE {f \in Entries : EndsWith(f, "@.txt") /\ ~EndsWith(f, "@_ORI.txt")}

\* The file names of a returned list, as a set and in order, and the
\* file_id -> filename mapping that positional numbering gives it.
OutNames(out) == {Basename(out[k]) : k \in 1..Len(out)}
IdMapping(out) == {<<FileId(k), Basename(out[k])>> : k \in 1..Len(out)}
Runs == 1..Len(fd_runs)

\* C16: whatever order os.listdir returns the entries in, the returned list
\* is exactly the entries matching the selected pattern, in ascending
\* lexicographic order, none missing or duplicated; two calls with the same
\* selector give the same file_id -> filename mapping.
TheoremC16 ==
    /\ \A r \in Runs :
           LET out == fd_runs[r].out
           IN  /\ OutNames(out) = Selected(fd_runs[r].sel)
               /\ Len(out) = Cardinality(Selected(fd_runs[r].sel))
               /\ \A k \in 1..(Len(out) - 1) :
                      StrLess(Basename(out[k]), Basename(out[k + 1]))
    /\ \A r1, r2 \in Runs :
           (fd_runs[r1].sel = fd_runs[r2].sel) =>
               /\ fd_runs[r1].out = fd_runs[r2].out
               /\ IdMapping(fd_runs[r1].out) = IdMapping(fd_runs[r2].out)

WitnessC16 ==
    /\ Len(fd_runs) = 2
    /\ fd_runs[1].sel = fd_runs[2].sel
    /\ fd_runs[1].listing # fd_runs[2].listing
    /\ Len(fd_runs[1].out) >= 2
    /\ Cardinality(Entries) > Len(fd_runs[1].out)
    /\ StrLess(fd_runs[1].listing.files[2], fd_runs[1].listing.files[1])

\* C17: no file name is returned both by the original and by the corrected
\* selector, and the corrected selector returns no name that matches the
\* original pattern.
TheoremC17 ==
    /\ \A r1, r2 \in Runs :
           (fd_runs[r1].sel # fd_runs[r2].sel) =>
               OutNames(fd_runs[r1].out) \cap OutNames(fd_runs[r2].out) = {}
    /\ \A r \in Runs :
           (~fd_runs[r].sel) =>
               \A f \in OutNames(fd_runs[r].out) : ~EndsWith(f, "@_ORI.txt")

WitnessC17 ==
    /\ Len(fd_runs) = 2
    /\ fd_runs[1].sel
    /\ ~fd_runs[2].sel
    /\ fd_runs[1].out # <<>>
    /\ fd_runs[2].out # <<>>

\* C18 as stated: with use_original_files = False the call returns every
\* entry whose name ends in .txt and does not end in @_ORI.txt.
OriginalC18 ==
    \A r \in Runs :
        (~fd_runs[r].sel) =>
            OutNames(fd_runs[r].out)
                = {f \in Entries : EndsWith(f, ".txt") /\ ~EndsWith(f, "@_ORI.txt")}

(***************************************************************************)
(* Properties of process_batch_files, process_folder_data and              *)
(* analyze_warpage (checked under Spec).                                   *)
(***************************************************************************)
FilesOfRuns == SampleFiles \cup DirFiles
LoadedOf == [f \in FilesOfRuns |-> load_data_from_file(f)]
LoadOK(file) == LoadedOf[file] # None

\* The tasks of the batch whose file loads.
GoodTasks == {i \in Tasks : LoadOK(disk[file_paths[i]])}
FileIds(n) == {FileId(k) : k \in 1..n}
NameOfPath(path) == Basename(path)

\* C1: under every interleaving the keys of folder_data are File_01 .. File_m
\* without gap or collision, one per collected result, and at return every
\* file whose load succeeds is the filename of exactly one entry (m = n).
TheoremC1 ==
    (entry = "batch") =>
        /\ DOMAIN folder_data = FileIds(Cardinality({i \in yielded : future[i] # None}))
        /\ \A i \in yielded : future[i] # None =>
               Cardinality({id \in DOMAIN folder_data :
                               folder_data[id].filename = NameOfPath(file_paths[i])}) = 1
        /\ (b_pc = "returned") =>
               /\ DOMAIN folder_data = FileIds(Cardinality(GoodTasks))
               /\ \A i \in GoodTasks :
                      Cardinality({id \in DOMAIN folder_data :
                                      folder_data[id].filename = NameOfPath(file_paths[i])}) = 1
               /\ \A id \in DOMAIN folder_data :
                      \E i \in GoodTasks : folder_data[id].filename = NameOfPath(file_paths[i])

WitnessC1 ==
    /\ entry = "batch"
    /\ b_pc = "returned"
    /\ Cardinality(GoodTasks) >= 2
    /\ GoodTasks # Tasks
    /\ \E i, j \in GoodTasks :
           /\ i < j
           /\ folder_data[FileId(1)].filename = NameOfPath(file_paths[j])

\* C2 as stated: at return the k-th successfully processed file in input
\* order is stored under File_{k:02d}.
OriginalC2 ==
    (entry = "batch" /\ b_pc = "returned") =>
        \A i \in GoodTasks :
            LET k == Cardinality({j \in GoodTasks : j <= i})
            IN  /\ FileId(k) \in DOMAIN folder_data
                /\ folder_data[FileId(k)].filename = NameOfPath(file_paths[i])

\* The file names a selector matches, and the files of all folders done
\* that were discovered and load.
Matches(f) ==
    IF use_original_files THEN EndsWith(f, "@_ORI.txt")
    ELSE EndsWith(f, "@.txt") /\ ~EndsWith(f, "@_ORI.txt")
Discovered(i) == DOMAIN listed[i].files
Successful(i) == {f \in Discovered(i) : LoadOK(listed[i].files[f])}
AllSuccessful == {p \in (1..Len(listed)) \X DirNames : p[2] \in Successful(p[1])}

\* C3 as stated: when the loading phase of analyze_warpage ends, every
\* successfully processed file of every folder has its own entry and the
\* collection has as many entries as there are such files.
OriginalC3 ==
    (entry = "analyze" /\ a_pc \in {"loaded", "no_data"}) =>
        /\ Len(listed) = Len(folders)
        /\ Cardinality(DOMAIN a_folder_data) = Cardinality(AllSuccessful)
        /\ \A p \in AllSuccessful :
               \E id \in DOMAIN a_folder_data :
                   /\ a_folder_data[id].filename = p[2]
                   /\ file_info[id].folder = folders[p[1]]

\* The names of the entries of a list of results, in order.
ResultNames(rs) == [k \in 1..Len(rs) |-> rs[k].filename]
\* The names of the paths that load, in order.
RECURSIVE LoadableNames(_, _)
LoadableNames(paths, content) ==
    IF paths = <<>> THEN <<>>
    ELSE (IF LoadOK(content[NameOfPath(Head(paths))])
          THEN <<NameOfPath(Head(paths))>> ELSE <<>>)
         \o LoadableNames(Tail(paths), content)

\* C4: a failed load is skipped and the batch goes on.  process_batch_files
\* returns exactly the files that load, after every task has finished;
\* process_folder_data counts one success or one failure per file visited
\* and at the end of its loop holds exactly the files that load, in
\* discovery order, with successful_files + failed_files = number of files
\* discovered.
TheoremC4 ==
    /\ (entry = "batch" /\ b_pc = "returned") =>
           /\ \A i \in Tasks : task[i].pc = "done"
           /\ {folder_data[id].filename : id \in DOMAIN folder_data}
                  = {NameOfPath(file_paths[i]) : i \in GoodTasks}
           /\ Cardinality(DOMAIN folder_data) = Cardinality(GoodTasks)
    /\ (entry = "analyze" /\ pfd_pc = "loop") =>
           /\ successful_files + failed_files = pfd_i - 1
           /\ successful_files = Len(results)
           /\ pfd_i <= Len(pfd_paths) + 1
           /\ (pfd_i > Len(pfd_paths)) =>
                  /\ successful_files + failed_files = Len(pfd_paths)
                  /\ Len(pfd_paths)
                         = Cardinality({f \in DOMAIN cur_dir.content : Matches(f)})
                  /\ ResultNames(results) = LoadableNames(pfd_paths, cur_dir.content)

WitnessC4 ==
    /\ entry = "analyze"
    /\ pfd_pc = "loop"
    /\ pfd_i > Len(pfd_paths)
    /\ Len(pfd_paths) = 2
    /\ ~LoadOK(cur_dir.content[NameOfPath(pfd_paths[1])])
    /\ failed_files = 1
    /\ successful_files = 1
    /\ ResultNames(results) = <<NameOfPath(pfd_paths[2])>>

\* C19: a folder that cannot be listed gives an empty list from
\* find_data_files and no file from process_folder_data, and analyze_warpage
\* goes through every folder of its list all the same: when the loading
\* phase ends every folder has been visited, and the last folder with a
\* loadable file has its files in the collection.
TheoremC19 ==
    (entry = "analyze") =>
        /\ \A i \in 1..Len(folders) :
               find_data_files(Join(base_path, folders[i]), OSError, use_original_files)
                   = <<>>
        /\ \A i \in 1..Len(listed) : (~listed[i].exists) => Discovered(i) = {}
        /\ (pfd_pc = "loop") => cur_dir.exists
        /\ (a_pc \in {"loaded", "no_data"}) =>
               /\ Len(listed) = Len(folders)
               /\ \A i \in 1..Len(listed) :
                      (Successful(i) # {} /\ \A j \in (i + 1)..Len(listed) : Successful(j) = {})
                          => \A f \in Successful(i) :
                                 \E id \in DOMAIN a_folder_data :
                                     /\ a_folder_data[id].filename = f
                                     /\ file_info[id].folder = folders[i]

WitnessC19 ==
    /\ entry = "analyze"
    /\ a_pc = "loaded"
    /\ Len(listed) = 2
    /\ ~listed[1].exists
    /\ Cardinality(Successful(2)) = 2
    /\ Cardinality(DOMAIN a_folder_data) = 2

\* C20: the loading phase ends in the 'no data found' outcome exactly when
\* no file of any folder produced a result; with at least one result it
\* ends in the loaded outcome, whatever loads and listings failed.
TheoremC20 ==
    (entry = "analyze" /\ a_pc \in {"loaded", "no_data"}) =>
        /\ Len(listed) = Len(folders)
        /\ (a_pc = "no_data") <=> (AllSuccessful = {})
        /\ (a_pc = "loaded") <=> (AllSuccessful # {})

WitnessC20 ==
    /\ entry = "analyze"
    /\ a_pc = "loaded"
    /\ \E i \in 1..Len(listed) : ~listed[i].exists
    /\ \E i \in 1..Len(listed) : Discovered(i) \ Successful(i) # {}
    /\ AllSuccessful # {}

\* The files a run has met, each with its path: the inputs of
\* process_batch_files, or the files found in the folders so far.
Taken ==
    IF entry = "batch"
    THEN {<<file_paths[i], disk[file_paths[i]]>> : i \in Tasks}
    ELSE UNION {{<<Join(Join(base_path, folders[k]), f), listed[k].files[f]>> :
                    f \in Discovered(k)} : k \in 1..Len(listed)}
         \cup (IF pfd_pc = "loop"
               THEN {<<pfd_paths[j], cur_dir.content[Basename(pfd_paths[j])]>> :
                        j \in 1..Len(pfd_paths)}
               ELSE {})
Times(calls, op) == Cardinality({k \in 1..Len(calls) : calls[k] = op})
Extracting == row_fraction # <<1, 1>> \/ col_fraction # <<1, 1>>

\* C22: in a run of process_batch_files or process_folder_data a file is
\* loaded at most once; after a failed load the file is skipped at once,
\* with no second load, no extraction and no statistics; for a file that
\* loads, the calls come in the order load, extract, statistics.
TheoremC22 ==
    /\ DOMAIN steps \subseteq {pf[1] : pf \in Taken}
    /\ \A pf \in Taken :
           (pf[1] \in DOMAIN steps) =>
               LET calls == steps[pf[1]]
               IN  /\ Times(calls, "load") = 1
                   /\ calls[1] = "load"
                   /\ (~LoadOK(pf[2])) => calls = <<"load", "skip">>
                   /\ LoadOK(pf[2]) =>
                          /\ calls \in {<<"load", "statistics">>,
                                        <<"load", "extract", "statistics">>}
                          /\ Extracting => calls = <<"load", "extract", "statistics">>
    /\ (entry = "batch" /\ b_pc = "returned") => DOMAIN steps = {pf[1] : pf \in Taken}

WitnessC22 ==
    /\ entry = "batch"
    /\ b_pc = "returned"
    /\ \E p, q \in DOMAIN steps :
           /\ steps[p] = <<"load", "skip">>
           /\ steps[q] = <<"load", "extract", "statistics">>

\* The tasks that have left the with block.
Counted == {i \in Tasks : task[i].pc = "done" /\ future[i] # None}

\* C29: the progress counter is changed only inside the with block, which
\* one task at a time is in, holding progress_lock; it counts the files
\* processed with success, once each: the values printed are 1, 2, ..., n
\* in this order, the counter never exceeds the number of input files, and
\* at return it equals the size of the returned collection.
TheoremC29 ==
    (entry = "batch") =>
        /\ \A i \in Tasks : (task[i].pc = "locked") => progress_lock = i
        /\ Cardinality({i \in Tasks : task[i].pc = "locked"}) <= 1
        /\ processed_count = Cardinality(Counted)
        /\ printed = [k \in 1..processed_count |-> k]
        /\ processed_count <= Len(file_paths)
        /\ (b_pc = "returned") =>
               /\ processed_count = Cardinality(GoodTasks)
               /\ processed_count = Cardinality(DOMAIN folder_data)

WitnessC29 ==
    /\ entry = "batch"
    /\ b_pc = "returned"
    /\ printed = <<1, 2>>
    /\ Len(file_paths) = 3
    /\ Cardinality(DOMAIN folder_data) = 2

\* The entry that comes from the file of the i-th path alone (a file that
\* loads): its region for the fractions of the run, the statistics of this
\* region, its name.
OwnEntry(i) ==
    LET region == CenterData(LoadedOf[disk[file_paths[i]]], row_fraction, col_fraction)
    IN  Entry(region, calculate_statistics(region), Basename(file_paths[i]))

\* C24: under every interleaving what a call holds, what its future
\* returns and every entry of folder_data come from one file: the grid is
\* the region extracted from the file the entry names, and the statistics
\* are those of this grid.
TheoremC24 ==
    (entry = "batch") =>
        /\ \A i \in Tasks :
               (task[i].center_data # None) =>
                   /\ LoadOK(disk[file_paths[i]])
                   /\ LET own == OwnEntry(i)
                      IN  /\ task[i].center_data = own.data
                          /\ task[i].stats = own.stats
                          /\ (future[i] # Pending) => future[i] = own
        /\ \A i \in Tasks :
               (task[i].center_data = None) => future[i] \in {Pending, None}
        /\ \A id \in DOMAIN folder_data :
               \E i \in yielded :
                   /\ folder_data[id] = future[i]
                   /\ folder_data[id].filename = Basename(file_paths[i])

WitnessC24 ==
    /\ entry = "batch"
    /\ b_pc = "returned"
    /\ Extracting
    /\ Len(file_paths) >= 2
    /\ disk[file_paths[1]] = GoodFile
    /\ disk[file_paths[2]] = OtherFile
    /\ FileId(1) \in DOMAIN folder_data
    /\ FileId(2) \in DOMAIN folder_data
    /\ folder_data[FileId(1)].filename = Basename(file_paths[2])
    /\ folder_data[FileId(1)].data # folder_data[FileId(2)].data
    /\ folder_data[FileId(1)].stats # folder_data[FileId(2)].stats

(***************************************************************************)
(* Properties of process_batch_files under fair scheduling (checked under  *)
(* SpecFair).                                                              *)
(***************************************************************************)
Hanging == {i \in Tasks : ~Returns(disk[file_paths[i]])}
Processed(i) ==
    /\ file_paths[i] \in DOMAIN steps
    /\ steps[file_paths[i]] \in {<<"load", "skip">>, <<"load", "extract", "statistics">>}
    /\ LoadOK(disk[file_paths[i]]) =>
           /\ task[i].center_data # None
           /\ task[i].stats # None

\* C25: with fewer than max_workers = 4 files whose read never returns,
\* every other submitted file is in the end loaded, extracted and has its
\* statistics computed: no call waits for the result of another.
TheoremC25 ==
    <>[](/\ b_pc # "start"
         /\ (Cardinality(Hanging) < max_workers) =>
                \A i \in Tasks \ Hanging : Processed(i))

WitnessC25 ==
    /\ entry = "batch"
    /\ Cardinality(Hanging) = max_workers - 1
    /\ \E i \in Tasks :
           /\ \A j \in Hanging : j < i /\ task[j].pc = "running"
           /\ Processed(i)
           /\ LoadOK(disk[file_paths[i]])

EntryNames == {folder_data[id].filename : id \in DOMAIN folder_data}

\* What holds when process_batch_files has returned: every submitted call
\* has completed and every input file is in the collection or was skipped.
AtReturn ==
    (b_pc = "returned") =>
        /\ \A i \in Tasks : task[i].pc = "done" /\ future[i] # Pending
        /\ progress_lock = 0
        /\ \A i \in Tasks :
               IF LoadOK(disk[file_paths[i]])
               THEN Basename(file_paths[i]) \in EntryNames
               ELSE /\ steps[file_paths[i]] = <<"load", "skip">>
                    /\ Basename(file_paths[i]) \notin EntryNames

\* C26: when the load of every file terminates, process_batch_files
\* returns; it returns only after all submitted calls have completed, with
\* every input file in the collection or skipped; and the collection does
\* not change after the return.
TheoremC26 ==
    /\ (b_pc = "start" /\ Hanging = {}) ~> (b_pc = "returned")
    /\ []AtReturn
    /\ [][b_pc = "returned" => (b_pc' = "returned" /\ folder_data' = folder_data)]_vars

WitnessC26 ==
    /\ entry = "batch"
    /\ b_pc = "returned"
    /\ Len(file_paths) = MaxPool
    /\ \E i, j \in Tasks :
           /\ LoadOK(disk[file_paths[i]])
           /\ Basename(file_paths[i]) \in EntryNames
           /\ ~LoadOK(disk[file_paths[j]])
           /\ steps[file_paths[j]] = <<"load", "skip">>

(***************************************************************************)
(* Properties of validate_batch_files (checked under SpecValidate).        *)
(***************************************************************************)
AcceptedName(path) == EndsWith(Basename(path), ".txt") \/ EndsWith(Basename(path), ".ptr")

\* Every non-empty line among the first three lines is a row of numbers.
FirstLinesNumeric(ls) ==
    \A k \in 1..Len(ls) : k <= 3 =>
        \A j \in 1..Len(ls[k]) : ParseFloat(ls[k][j]) # ValueError

\* The four conditions as stated: existence, extension, size, sample lines.
StatedValid(path) ==
    /\ vb_fs[path].exists
    /\ AcceptedName(path)
    /\ vb_fs[path].lines # <<>>
    /\ FirstLinesNumeric(vb_fs[path].lines)

\* The same, for a file whose first lines can be read at all.
ReadValid(path) == StatedValid(path) /\ vb_fs[path].readable

InValid(path) == \E k \in 1..Len(vb_out.valid_files) : vb_out.valid_files[k] = path
InInvalid(path) == \E k \in 1..Len(vb_out.invalid_files) : vb_out.invalid_files[k][1] = path
Occurrences(seq, x) == Cardinality({k \in 1..Len(seq) : seq[k] = x})

\* The returned lists partition the candidates, and the counts agree.
Partitioned ==
    /\ \A k \in 1..Len(vb_paths) : InValid(vb_paths[k]) # InInvalid(vb_paths[k])
    /\ \A path \in CandidatePaths :
           Occurrences(vb_paths, path) =
               Occurrences(vb_out.valid_files, path)
               + Occurrences([k \in 1..Len(vb_out.invalid_files) |->
                                 vb_out.invalid_files[k][1]], path)
    /\ vb_out.total_files = Len(vb_paths)
    /\ vb_out.valid_count = Len(vb_out.valid_files)
    /\ vb_out.invalid_count = Len(vb_out.invalid_files)
    /\ vb_out.valid_count + vb_out.invalid_count = vb_out.total_files

\* C23 as stated: the result partitions the candidate paths, the counts add
\* up to total_files, and a path is valid if and only if the file exists,
\* its name ends in .txt or .ptr, its size is not zero and every non-empty
\* line among its first three lines parses as a row of numbers.
OriginalC23 ==
    vb_pc = "done" =>
        /\ Partitioned
        /\ \A k \in 1..Len(vb_paths) : InValid(vb_paths[k]) <=> StatedValid(vb_paths[k])

\* C23, amended: the result partitions the candidate paths, the counts add
\* up to total_files, and a path is valid if and only if the file exists,
\* its name ends in .txt or .ptr, its size is not zero, the file can be
\* opened and its first three lines read as UTF-8 text, and every non-empty
\* line among them parses as a row of numbers.
TheoremC23 ==
    vb_pc = "done" =>
        /\ Partitioned
        /\ \A k \in 1..Len(vb_paths) : InValid(vb_paths[k]) <=> ReadValid(vb_paths[k])

\* A call that returned a valid path whose fourth line holds a word, and
\* turned down a file of numeric lines that cannot be read.
WitnessC23 ==
    /\ vb_pc = "done"
    /\ \E k \in 1..Len(vb_paths) :
           /\ InValid(vb_paths[k])
           /\ Len(vb_fs[vb_paths[k]].lines) = 4
    /\ \E k \in 1..Len(vb_paths) :
           /\ InInvalid(vb_paths[k])
           /\ StatedValid(vb_paths[k])
           /\ ~vb_fs[vb_paths[k]].readable

(***************************************************************************)
(* Properties of the web server (checked under SpecWeb).                   *)
(***************************************************************************)
\* The folders of the tree at the folder rel or below it, at any depth.
FoldersUnder(fs, rel) ==
    {d \in DOMAIN fs :
        /\ fs[d].exists
        /\ \/ d = rel
           \/ Len(d) > Len(rel) /\ SubSeq(d, 1, Len(rel) + 1) = rel \o "/"}

\* The paths of the data files in these folders: the names the selector of
\* original files matches, holding a grid that loads.
DataFilesUnder(fs, rel) ==
    UNION {{Join(Join(DATA_DIR, d), f) :
               f \in {f \in DOMAIN fs[d].content :
                         /\ EndsWith(f, FILE_PATTERNS.original)
                         /\ load_data_from_file(fs[d].content[f]) # None}} :
              d \in FoldersUnder(fs, rel)}

\* C21 as stated: when /api/analyze has processed a selected folder, every
\* data file in that folder or in a subfolder of it, at any depth, was
\* given to the loader exactly once and stands behind exactly one entry of
\* the analysis results.
OriginalC21 ==
    (w_last.endpoint = "analyze" /\ w_last.stage \in {"no_data", "plots_failed", "done"}) =>
        \A path \in DataFilesUnder(web_fs, w_last.request.folder) :
            /\ Occurrences(w_last.run.loaded, path) = 1
            /\ Occurrences(w_last.run.sources, path) = 1

NoData == Failure("No analysis data available")

\* C30: a request to /api/analyze that fails (no folder given, folder not
\* found, no data files found, an exception during processing or during
\* plot generation) leaves current_analysis as it was; the plot and export
\* endpoints answer 'No analysis data available' exactly as long as no
\* analysis has succeeded, and afterwards serve the last successful one.
TheoremC30 ==
    /\ (w_last.endpoint = "analyze" /\ ~w_last.response.success) =>
           /\ w_last.stage \in {"bad_request", "no_folder", "not_found", "no_data",
                                "plots_failed"}
           /\ current_analysis = w_before
    /\ (w_last.endpoint \in {"all_plots", "export_pdf"}) =>
           /\ (w_last.response = NoData) <=> (w_success = None)
           /\ w_last.response.success => w_last.response.body = w_success
           /\ (w_last.endpoint = "all_plots" /\ w_success # None) =>
                  w_last.response.success

\* A request that failed in plot generation after an analysis had
\* succeeded, the stored analysis still being that one.
WitnessC30 ==
    /\ w_last.endpoint = "analyze"
    /\ w_last.stage = "plots_failed"
    /\ w_before # None
    /\ current_analysis = w_before
    /\ w_success # None
    /\ w_success.summary.folder # w_last.request.folder

====
